---- MODULE Spec2Model ----
(***************************************************************************)
(* Model of bandersnatch's typed configuration: the configuration source   *)
(* (BandersnatchConfig, a ConfigParser with normalised option names), the  *)
(* cache of validated objects kept by get_validated, and the validation of *)
(* the [mirror] section into a MirrorConfiguration.                        *)
(*                                                                         *)
(* Text is modelled as a sequence of one-character strings, so that name   *)
(* normalisation and the conversions of option values are computed the way *)
(* the code computes them.                                                 *)
(***************************************************************************)
EXTENDS Integers, Sequences, FiniteSets, TLC

VARIABLES
    sections,            \* ConfigParser._sections: section name -> (option key -> raw value)
    validated_objects,   \* BandersnatchConfig._validated_objects: model name -> object id
    heap,                \* the instances created so far: object id -> instance
    writes,              \* number of configuration files loaded so far
    last,                \* outcome of the most recent get_validated call, NoCall after a load
    returned,            \* model type -> object ids successful get_validated calls returned
    validations,         \* model type -> number of instances its validation produced
    written,             \* the option name, as spelled, of the file loaded last
    refcall,             \* the most recent eval_legacy_reference call and its outcome
    pc,                  \* thread -> position inside get_validated
    tmodel,              \* thread -> model type of the call in progress
    tobj,                \* thread -> instance produced by the thread's validation
    patterns,            \* regex filter plugin -> its 'patterns' attribute
    filtered,            \* the most recent call of a regex filter plugin and its outcome
    _instances,          \* Singleton._instances: class name -> manager id
    managers,            \* the next.BandersnatchConfig instances: manager id -> attributes
    parsers,             \* the ConfigParser objects: parser id -> sections
    constructed          \* the calls BandersnatchConfig(...) made so far, with their results

vars == <<sections, validated_objects, heap, writes, last, returned, validations,
          written, refcall, pc, tmodel, tobj, patterns, filtered, _instances, managers,
          parsers, constructed>>

----------------------------------------------------------------------------
(* Bounds of the model *)

\* number of load_user_config calls in a behaviour
\* the greatest number of calls BandersnatchConfig(...) in a behaviour
MaxConstructions == 3

\* the greatest number of parsers the callers create themselves
MaxParsers == 2

MaxWrites == 2

----------------------------------------------------------------------------
(* Text constants of the program *)

s_mirror == <<"m", "i", "r", "r", "o", "r">>
k_directory == <<"d", "i", "r", "e", "c", "t", "o", "r", "y">>
k_download_mirror_no_fallback == <<"d", "o", "w", "n", "l", "o", "a", "d", "_", "m", "i", "r",
        "r", "o", "r", "_", "n", "o", "_", "f", "a", "l", "l", "b", "a", "c", "k">>
k_release_files == <<"r", "e", "l", "e", "a", "s", "e", "_", "f", "i", "l", "e", "s">>
k_json == <<"j", "s", "o", "n">>
k_root_uri == <<"r", "o", "o", "t", "_", "u", "r", "i">>
k_hash_index == <<"h", "a", "s", "h", "_", "i", "n", "d", "e", "x">>
k_keep_index_versions == <<"k", "e", "e", "p", "_", "i", "n", "d", "e", "x", "_", "v", "e", "r",
        "s", "i", "o", "n", "s">>
k_diff_file == <<"d", "i", "f", "f", "_", "f", "i", "l", "e">>
k_diff_append_epoch == <<"d", "i", "f", "f", "_", "a", "p", "p", "e", "n", "d", "_", "e", "p",
        "o", "c", "h">>
k_stop_on_error == <<"s", "t", "o", "p", "_", "o", "n", "_", "e", "r", "r", "o", "r">>
k_timeout == <<"t", "i", "m", "e", "o", "u", "t">>
k_global_timeout == <<"g", "l", "o", "b", "a", "l", "_", "t", "i", "m", "e", "o", "u", "t">>
k_workers == <<"w", "o", "r", "k", "e", "r", "s">>
k_verifiers == <<"v", "e", "r", "i", "f", "i", "e", "r", "s">>
k_cleanup == <<"c", "l", "e", "a", "n", "u", "p">>
_default_root_uri == <<"h", "t", "t", "p", "s", ":", "/", "/", "f", "i", "l", "e", "s", ".", "p",
        "y", "t", "h", "o", "n", "h", "o", "s", "t", "e", "d", ".", "o", "r", "g">>
v_mirrored_files == <<"m", "i", "r", "r", "o", "r", "e", "d", "-", "f", "i", "l", "e", "s">>

----------------------------------------------------------------------------
(* Characters and text *)

DigitChars == <<"0", "1", "2", "3", "4", "5", "6", "7", "8", "9">>

\* index of character c in the sequence cs, 0 when it is not there
IndexOf(c, cs) ==
    IF \E i \in 1..Len(cs) : cs[i] = c
    THEN CHOOSE i \in 1..Len(cs) : cs[i] = c
    ELSE 0

\* the lower-case letter of each upper-case letter
LowerOf ==
    [A |-> "a", B |-> "b", C |-> "c", D |-> "d", E |-> "e", F |-> "f", G |-> "g",
     H |-> "h", I |-> "i", J |-> "j", K |-> "k", L |-> "l", M |-> "m", N |-> "n",
     O |-> "o", P |-> "p", Q |-> "q", R |-> "r", S |-> "s", T |-> "t", U |-> "u",
     V |-> "v", W |-> "w", X |-> "x", Y |-> "y", Z |-> "z"]

\* str.lower on one character
LowerChar(c) == IF c \in DOMAIN LowerOf THEN LowerOf[c] ELSE c

\* str.lower
Lower(s) == [i \in 1..Len(s) |-> LowerChar(s[i])]


IsDigit(c) == IndexOf(c, DigitChars) > 0

\* value of a sequence of decimal digits, other characters skipped
RECURSIVE DigitsValue(_)
DigitsValue(s) ==
    IF s = <<>> THEN 0
    ELSE LET rest == DigitsValue(SubSeq(s, 1, Len(s) - 1))
             c == s[Len(s)]
         IN IF IsDigit(c) THEN 10 * rest + (IndexOf(c, DigitChars) - 1) ELSE rest

RECURSIVE Pow10(_)
Pow10(n) == IF n = 0 THEN 1 ELSE 10 * Pow10(n - 1)

\* s.split(c): the pieces of s between occurrences of the character c
RECURSIVE SplitBy(_, _)
SplitBy(s, c) ==
    IF \A i \in 1..Len(s) : s[i] # c THEN <<s>>
    ELSE LET i == CHOOSE j \in 1..Len(s) :
                      s[j] = c /\ \A k \in 1..(j - 1) : s[k] # c
         IN <<SubSeq(s, 1, i - 1)>> \o SplitBy(SubSeq(s, i + 1, Len(s)), c)

\* the elements of the sequence ps that are not in the set drop, in order
SelectParts(ps, drop) ==
    LET F[i \in 0..Len(ps)] ==
            IF i = 0 THEN <<>>
            ELSE IF ps[i] \in drop THEN F[i - 1] ELSE Append(F[i - 1], ps[i])
    IN F[Len(ps)]

\* sub in s: the text sub occurs in s
Contains(s, sub) ==
    \E i \in 1..(Len(s) - Len(sub) + 1) : SubSeq(s, i, i + Len(sub) - 1) = sub

\* str.replace(sub, ""): every occurrence of sub removed, left to right
RECURSIVE RemoveAll(_, _)
RemoveAll(s, sub) ==
    IF Len(s) < Len(sub) THEN s
    ELSE IF SubSeq(s, 1, Len(sub)) = sub
         THEN RemoveAll(SubSeq(s, Len(sub) + 1, Len(s)), sub)
         ELSE <<s[1]>> \o RemoveAll(SubSeq(s, 2, Len(s)), sub)

IsSpace(c) == c \in {" ", "\t", "\n"}

\* str.strip
RECURSIVE Strip(_)
Strip(s) ==
    IF s = <<>> THEN s
    ELSE IF IsSpace(s[1]) THEN Strip(SubSeq(s, 2, Len(s)))
    ELSE IF IsSpace(s[Len(s)]) THEN Strip(SubSeq(s, 1, Len(s) - 1))
    ELSE s

\* str.partition(c): the text before the first c, and the text after it
PartitionBy(s, c) ==
    IF \A i \in 1..Len(s) : s[i] # c THEN [before |-> s, after |-> <<>>]
    ELSE LET i == CHOOSE j \in 1..Len(s) :
                      s[j] = c /\ \A k \in 1..(j - 1) : s[k] # c
         IN [before |-> SubSeq(s, 1, i - 1), after |-> SubSeq(s, i + 1, Len(s))]

----------------------------------------------------------------------------
(* Values of the typed model *)

None == <<>>
Some(v) == <<v>>

Ok(v) == [ok |-> TRUE, v |-> v]
Fail == [ok |-> FALSE]

\* PurePath(s), POSIX flavour: the root and the components, with empty and "."
\* components dropped
PurePath(s) ==
    [root  |-> IF Len(s) >= 2 /\ s[1] = "/" /\ s[2] = "/" /\ (Len(s) = 2 \/ s[3] # "/")
               THEN <<"/", "/">>
               ELSE IF Len(s) >= 1 /\ s[1] = "/" THEN <<"/">> ELSE <<>>,
     parts |-> SelectParts(SplitBy(s, "/"), {<<>>, <<".">>})]

\* variant of JoinPath: the name replaces the last component (with_name for /)
JoinPath_with_name(p, name) ==
    [root |-> p.root,
     parts |-> SubSeq(p.parts, 1, Len(p.parts) - 1) \o PurePath(name).parts]

\* path / name for a relative name
JoinPath(p, name) == [root |-> p.root, parts |-> p.parts \o PurePath(name).parts]

\* variant of to_bool: the text is compared as written, without lower()
to_bool_case_sensitive(s) ==
    IF s \in {<<"t", "r", "u", "e">>, <<"t">>, <<"y", "e", "s">>, <<"y">>, <<"o", "n">>, <<"1">>}
    THEN Ok(TRUE)
    ELSE IF s \in {<<"f", "a", "l", "s", "e">>, <<"f">>, <<"n", "o">>, <<"n">>,
                   <<"o", "f", "f">>, <<"0">>}
    THEN Ok(FALSE)
    ELSE Fail

\* attrs.converters.to_bool on a string
to_bool(s) ==
    LET val == Lower(s)
    IN  IF val \in {<<"t", "r", "u", "e">>, <<"t">>, <<"y", "e", "s">>, <<"y">>,
                    <<"o", "n">>, <<"1">>}
        THEN Ok(TRUE)
        ELSE IF val \in {<<"f", "a", "l", "s", "e">>, <<"f">>, <<"n", "o">>, <<"n">>,
                         <<"o", "f", "f">>, <<"0">>}
        THEN Ok(FALSE)
        ELSE Fail

\* variant of IsDigitGroup: an underscore may also end the run
IsDigitGroup_trailing_underscore(s) ==
    /\ s # <<>>
    /\ IsDigit(s[1])
    /\ \A i \in 1..Len(s) : IsDigit(s[i]) \/ s[i] = "_"
    /\ \A i \in 1..(Len(s) - 1) : ~(s[i] = "_" /\ s[i + 1] = "_")

\* a run of decimal digits in which single underscores may separate digits
IsDigitGroup(s) ==
    /\ s # <<>>
    /\ IsDigit(s[1])
    /\ IsDigit(s[Len(s)])
    /\ \A i \in 1..Len(s) : IsDigit(s[i]) \/ s[i] = "_"
    /\ \A i \in 1..(Len(s) - 1) : ~(s[i] = "_" /\ s[i + 1] = "_")

\* the text without a leading sign, and the sign
Unsigned(s) == IF s # <<>> /\ s[1] \in {"-", "+"} THEN SubSeq(s, 2, Len(s)) ELSE s
SignOf(s) == IF s # <<>> /\ s[1] = "-" THEN -1 ELSE 1

\* int(s) on a string: surrounding blanks are ignored, then [sign] digits
ParseSigned(sign, digits) ==
    IF IsDigitGroup(digits) THEN Ok(sign * DigitsValue(digits)) ELSE Fail

to_int(s) == ParseSigned(SignOf(Strip(s)), Unsigned(Strip(s)))

\* A float is kept exactly, as the fraction n / d with d a power of ten.
Float(n, d) == [n |-> n, d |-> d]
FloatEq(a, b) == a.n * b.d = b.n * a.d
\* variant of FloatGt: a bound that admits the limit itself (>= for >)
FloatGe(a, k) == a.n >= k * a.d
FloatGt(a, k) == a.n > k * a.d

\* float(s) on a string holding a decimal literal: [sign] digits [. [digits]] or
\* [sign] . digits (exponents, inf and nan are outside the values the model draws)
ParseDecimal(sign, ip, fp, scale) ==
    IF /\ ip # <<>> \/ fp # <<>>
       /\ ip # <<>> => IsDigitGroup(ip)
       /\ fp # <<>> => IsDigitGroup(fp)
    THEN Ok(Float(sign * (DigitsValue(ip) * scale + DigitsValue(fp)), scale))
    ELSE Fail

ParsePoint(sign, pt) ==
    ParseDecimal(sign, pt.before, pt.after, Pow10(Len(SelectSeq(pt.after, IsDigit))))

to_float(s) == ParsePoint(SignOf(Strip(s)), PartitionBy(Unsigned(Strip(s)), "."))

\* get_format_value, get_comparison_value, get_digest_value: the member named by
\* the text, matched without regard to letter case
get_enum_value(s, members) ==
    IF Lower(s) \in members THEN Ok(Lower(s)) ELSE Fail

----------------------------------------------------------------------------
(* MirrorConfiguration: the fields in declaration order *)

Field(name, key, type, default) ==
    [name |-> name, key |-> key, type |-> type, required |-> FALSE, default |-> default]

MirrorFields == <<
    [name |-> "directory", key |-> k_directory, type |-> "PurePath",
     required |-> TRUE, default |-> None],
    Field("storage_backend_name", <<"s", "t", "o", "r", "a", "g", "e", "_", "b", "a", "c", "k",
            "e", "n", "d">>, "str", <<"f", "i", "l", "e", "s", "y", "s", "t", "e", "m">>),
    Field("master_url", <<"m", "a", "s", "t", "e", "r">>, "str", <<"h", "t", "t", "p", "s", ":",
            "/", "/", "p", "y", "p", "i", ".", "o", "r", "g">>),
    Field("proxy_url", <<"p", "r", "o", "x", "y">>, "optstr", None),
    Field("download_mirror_url", <<"d", "o", "w", "n", "l", "o", "a", "d", "_", "m", "i", "r",
            "r", "o", "r">>, "optstr", None),
    Field("download_mirror_no_fallback", k_download_mirror_no_fallback, "bool", FALSE),
    Field("simple_format", <<"s", "i", "m", "p", "l", "e", "_", "f", "o", "r", "m", "a", "t">>,
            "SimpleFormat", <<"a", "l", "l">>),
    Field("save_release_files", k_release_files, "bool", TRUE),
    Field("save_json", k_json, "bool", FALSE),
    Field("root_uri", k_root_uri, "str", <<>>),
    Field("hash_index", k_hash_index, "bool", FALSE),
    Field("keep_index_versions", k_keep_index_versions, "int", 0),
    Field("diff_file", k_diff_file, "PurePath", None),
    Field("diff_append_epoch", k_diff_append_epoch, "bool", FALSE),
    Field("stop_on_error", k_stop_on_error, "bool", FALSE),
    Field("timeout", k_timeout, "float", Float(10, 1)),
    Field("global_timeout", k_global_timeout, "float", Float(1800, 1)),
    Field("workers", k_workers, "int", 3),
    Field("verifiers", k_verifiers, "int", 3),
    Field("compare_method", <<"c", "o", "m", "p", "a", "r", "e", "_", "m", "e", "t", "h", "o",
            "d">>, "ComparisonMethod", <<"h", "a", "s", "h">>),
    Field("digest_name", <<"d", "i", "g", "e", "s", "t", "_", "n", "a", "m", "e">>,
            "SimpleDigest", <<"s", "h", "a", "2", "5", "6">>),
    Field("log_config", <<"l", "o", "g", "_", "c", "o", "n", "f", "i", "g">>, "optPurePath", None),
    Field("cleanup", k_cleanup, "bool", FALSE) >>

FieldIndex == 1..Len(MirrorFields)

\* variant of FieldValidators: workers and verifiers without their upper limit
FieldValidators_no_upper_limit(name) ==
    CASE name \in {"storage_backend_name", "master_url"} -> <<[op |-> "min_len", k |-> 1]>>
      [] name \in {"proxy_url", "download_mirror_url"} -> <<[op |-> "optional_min_len", k |-> 1]>>
      [] name = "keep_index_versions" -> <<[op |-> "ge", k |-> 0]>>
      [] name \in {"timeout", "global_timeout"} -> <<[op |-> "float_gt", k |-> 0]>>
      [] name \in {"workers", "verifiers"} -> <<[op |-> "gt", k |-> 0]>>
      [] OTHER -> <<>>

\* the validators of a field, in the order attrs applies them
FieldValidators(name) ==
    CASE name \in {"storage_backend_name", "master_url"} -> <<[op |-> "min_len", k |-> 1]>>
      [] name \in {"proxy_url", "download_mirror_url"} -> <<[op |-> "optional_min_len", k |-> 1]>>
      [] name = "keep_index_versions" -> <<[op |-> "ge", k |-> 0]>>
      [] name \in {"timeout", "global_timeout"} -> <<[op |-> "float_gt", k |-> 0]>>
      [] name \in {"workers", "verifiers"} -> <<[op |-> "gt", k |-> 0], [op |-> "le", k |-> 10]>>
      [] OTHER -> <<>>

\* variant of Passes: gt admits the bound itself
Passes_gt_admits_bound(c, v) ==
    CASE c.op = "min_len" -> Len(v) >= c.k
      [] c.op = "optional_min_len" -> v = None \/ Len(v[1]) >= c.k
      [] c.op = "ge" -> v >= c.k
      [] c.op = "gt" -> v >= c.k
      [] c.op = "le" -> v <= c.k
      [] c.op = "float_gt" -> FloatGt(v, c.k)

\* whether value v passes the validator c
Passes(c, v) ==
    CASE c.op = "min_len" -> Len(v) >= c.k
      [] c.op = "optional_min_len" -> v = None \/ Len(v[1]) >= c.k
      [] c.op = "ge" -> v >= c.k
      [] c.op = "gt" -> v > c.k
      [] c.op = "le" -> v <= c.k
      [] c.op = "float_gt" -> FloatGt(v, c.k)

\* variant of _default_diff_file: the directory is ignored
_default_diff_file_without_directory(directory) == PurePath(v_mirrored_files)

\* _default_diff_file: the directory joined with "mirrored-files"
_default_diff_file(directory) == JoinPath(directory, v_mirrored_files)

\* the converter of a field applied to the text of an option
ConvertText(f, s) ==
    CASE f.type = "PurePath" -> Ok(PurePath(s))
      [] f.type = "optPurePath" -> Ok(Some(PurePath(s)))
      [] f.type = "str" -> Ok(s)
      [] f.type = "optstr" -> Ok(Some(s))
      [] f.type = "bool" -> to_bool(s)
      [] f.type = "int" -> to_int(s)
      [] f.type = "float" -> to_float(s)
      [] f.type = "SimpleFormat" -> get_enum_value(s, ({<<"a", "l", "l">>, <<"h", "t", "m",
              "l">>, <<"j", "s", "o", "n">>}))
      [] f.type = "ComparisonMethod" -> get_enum_value(s, ({<<"h", "a", "s", "h">>, <<"s", "t",
              "a", "t">>}))
      [] f.type = "SimpleDigest" -> get_enum_value(s, ({<<"m", "d", "5">>, <<"s", "h", "a", "2",
              "5", "6">>}))

----------------------------------------------------------------------------
(* The configuration source: a ConfigParser with normalised option names *)

\* variant of optionxform: lower case only, "-" kept
optionxform_lower_only(optionstr) == Lower(optionstr)

\* BandersnatchConfig.optionxform: optionstr.lower().replace("-", "_"), taken
\* character by character: "-", which has no other case, becomes "_", and every
\* other character its lower case
optionxform(optionstr) ==
    [i \in 1..Len(optionstr) |->
        IF optionstr[i] = "-" THEN "_" ELSE LowerChar(optionstr[i])]

has_section(secs, section) == section \in DOMAIN secs

\* ConfigParser.has_option: the option name is normalised before the lookup
has_option(secs, section, option) ==
    /\ has_section(secs, section)
    /\ optionxform(option) \in DOMAIN secs[section]

\* ConfigParser.get where the option exists (values hold no "$" interpolation)
get_option(secs, section, option) == secs[section][optionxform(option)]

\* a function with key k set to v
Put(f, k, v) == [x \in (DOMAIN f) \cup {k} |-> IF x = k THEN v ELSE f[x]]

\* ConfigParser.read_file on a file holding one section header and its option
\* lines: the section is created when missing and every option is stored under
\* its normalised name
RECURSIVE StoreOptions(_, _)
StoreOptions(sect, lines) ==
    IF lines = <<>> THEN sect
    ELSE StoreOptions(Put(sect, optionxform(lines[1][1]), lines[1][2]), Tail(lines))

read_file(secs, file) ==
    LET old == IF has_section(secs, file.section) THEN secs[file.section] ELSE <<>>
    IN  Put(secs, file.section, StoreOptions(old, file.options))

----------------------------------------------------------------------------
(* Legacy "{{ section_option }}" references in diff-file *)

_has_legacy_section_reference(value) ==
    Contains(value, <<"{", "{">>) /\ Contains(value, <<"}", "}">>)

\* variant of _eval_legacy_section_reference: the empty text for a missing option
_eval_legacy_section_reference_or_empty(secs, value) ==
    LET raw_ref == RemoveAll(RemoveAll(value, <<"{", "{">>), <<"}", "}">>)
    IN  IF has_option(secs, Strip(PartitionBy(raw_ref, "_").before),
                      Strip(PartitionBy(raw_ref, "_").after))
        THEN Some(get_option(secs, Strip(PartitionBy(raw_ref, "_").before),
                             Strip(PartitionBy(raw_ref, "_").after)))
        ELSE Some(<<>>)

\* the referenced option's value, None when the section or option does not exist
_eval_legacy_section_reference(secs, value) ==
    LET raw_ref     == RemoveAll(RemoveAll(value, <<"{", "{">>), <<"}", "}">>)
        parts       == PartitionBy(raw_ref, "_")
        ref_section == Strip(parts.before)
        ref_key     == Strip(parts.after)
    IN  IF has_option(secs, ref_section, ref_key)
        THEN Some(get_option(secs, ref_section, ref_key))
        ELSE None

----------------------------------------------------------------------------
(* eval_legacy_reference: the resolver of core.py *)

\* the positions at which the two-character text pair starts in value
PairStarts(value, pair) ==
    {i \in 1..(Len(value) - 1) : value[i] = pair[1] /\ value[i + 1] = pair[2]}

\* the text between the braces matches
\*   \s* (?P<section>[^_\s](?:[^_]*[^_\s])) \s*_\s* (?P<option>\S(?:.*\S)?) \s*
\* the separator is the first "_": the section is the text before it without the
\* blanks around it, at least two characters; the option is the text after it
\* without the blanks around it, at least one character (the values drawn hold
\* a line break only among the blanks next to the braces, where \s* takes it)
InnerMatches(inner) ==
    /\ \E i \in 1..Len(inner) : inner[i] = "_"
    /\ Len(Strip(PartitionBy(inner, "_").before)) >= 2
    /\ Len(Strip(PartitionBy(inner, "_").after)) >= 1

\* the pairs <<i, j>>: "{{" at i and "}}" at j with matching text between them
RefCandidates(value) ==
    {c \in PairStarts(value, <<"{", "{">>) \X PairStarts(value, <<"}", "}">>) :
        c[2] >= c[1] + 2 /\ InnerMatches(SubSeq(value, c[1] + 2, c[2] - 1))}

\* the groups of the match with "{{" at i and "}}" at j
RefGroups(value, i, j) ==
    [pre     |-> SubSeq(value, 1, i - 1),
     section |-> Strip(PartitionBy(SubSeq(value, i + 2, j - 1), "_").before),
     option  |-> Strip(PartitionBy(SubSeq(value, i + 2, j - 1), "_").after),
     post    |-> SubSeq(value, j + 2, Len(value))]

\* the greatest number of a non-empty set of numbers
Greatest(S) == CHOOSE i \in S : \A j \in S : i >= j

\* 'pre' is greedy: the last "{{" that allows a match; 'option' is greedy: for
\* that "{{" the last "}}" that allows a match
RefChoose(value, cands, i) ==
    RefGroups(value, i, Greatest({c[2] : c \in {d \in cands : d[1] = i}}))

\* re.match(_LEGACY_REF_PARTS_RE, value, re.VERBOSE): the groups, or None
RefMatchOf(value, cands) ==
    IF cands = {} THEN None
    ELSE Some(RefChoose(value, cands, Greatest({c[1] : c \in cands})))

_LEGACY_REF_PARTS_RE(value) == RefMatchOf(value, RefCandidates(value))

\* re.match(_LEGACY_REF_RE, value) is not None, with _LEGACY_REF_RE the pattern
\*   .*\{\{.+\}\}.*
\* compiled without flags: "." takes no line break, so "{{" at i and "}}" at j
\* with at least one character between them and no line break before j
has_legacy_reference(value) ==
    \E i \in PairStarts(value, <<"{", "{">>), j \in PairStarts(value, <<"}", "}">>) :
        /\ j >= i + 3
        /\ \A k \in 1..(j - 1) : value[k] # "\n"

\* the fallback argument: the UNSET default, None, or a text
UNSET == [kind |-> "UNSET", v |-> <<>>]
FallbackNone == [kind |-> "None", v |-> <<>>]
Text(t) == [kind |-> "str", v |-> t]

\* an exception raised by eval_legacy_reference
RefRaise(exc, reason) == [ok |-> FALSE, exc |-> exc, reason |-> reason]

\* a value returned by eval_legacy_reference
RefReturn(v) == [ok |-> TRUE, v |-> v]

\* variant of RefNoMatch: the test of the other branch, "fallback is None"
RefNoMatch_raises_on_None(fallback) ==
    IF fallback = FallbackNone
    THEN RefRaise("ValueError", "Unable to parse config option reference")
    ELSE RefReturn(fallback)

\* the match failed: ValueError unless a fallback was given
RefNoMatch(fallback) ==
    IF fallback = UNSET
    THEN RefRaise("ValueError", "Unable to parse config option reference")
    ELSE RefReturn(fallback)

\* the match succeeded: config.get(sectname, optname) between pre and post; when
\* the section or the option is missing the error is re-raised if fallback is
\* None, otherwise fallback is returned
RefResolve(secs, m, fallback) ==
    IF has_option(secs, m.section, m.option)
    THEN RefReturn(Text(m.pre \o get_option(secs, m.section, m.option) \o m.post))
    ELSE IF fallback = FallbackNone
    THEN RefRaise(IF has_section(secs, m.section) THEN "NoOptionError"
                  ELSE "NoSectionError", "")
    ELSE RefReturn(fallback)

RefEval(secs, match_result, fallback) ==
    IF match_result = None THEN RefNoMatch(fallback)
    ELSE RefResolve(secs, match_result[1], fallback)

\* eval_legacy_reference(config, value, fallback=UNSET)
eval_legacy_reference(secs, value, fallback) ==
    RefEval(secs, _LEGACY_REF_PARTS_RE(value), fallback)

----------------------------------------------------------------------------
(* Construction of a MirrorConfiguration *)

\* an exception of class exc about an option (its key in the section), raised for
\* the attribute attr by the conversion to type, or by the validator op with bound k
Raise(exc, option, attr, reason, type, k) ==
    [ok |-> FALSE, exc |-> exc, option |-> option, attr |-> attr,
     reason |-> reason, type |-> type, k |-> k]

\* the least element of a non-empty set of numbers
Least(S) == CHOOSE i \in S : \A j \in S : i <= j

\* variant of __attrs_post_init__: save_release_files is not consulted
__attrs_post_init___any_release_files(self) ==
    IF self.root_uri = <<>>
    THEN [self EXCEPT !.root_uri = _default_root_uri]
    ELSE self

\* variant of __attrs_post_init__: root_uri is not consulted
__attrs_post_init___any_root_uri(self) ==
    IF ~self.save_release_files
    THEN [self EXCEPT !.root_uri = _default_root_uri]
    ELSE self

\* __attrs_post_init__: the default root_uri when release files are not saved
__attrs_post_init__(self) ==
    IF ~self.save_release_files /\ self.root_uri = <<>>
    THEN [self EXCEPT !.root_uri = _default_root_uri]
    ELSE self

\* the fields of kwargs converted in declaration order; a field that is not given
\* takes its default, diff_file the one computed from the converted directory
ConvertFields(kwargs) ==
    [i \in FieldIndex |->
        IF MirrorFields[i].key \in DOMAIN kwargs
        THEN ConvertText(MirrorFields[i], kwargs[MirrorFields[i].key])
        ELSE IF MirrorFields[i].name = "diff_file"
             THEN Ok(_default_diff_file(PurePath(kwargs[k_directory])))
             ELSE Ok(MirrorFields[i].default)]

\* the validators of field i that reject its converted value
FailingValidators(conv, i) ==
    {j \in 1..Len(FieldValidators(MirrorFields[i].name)) :
        ~Passes(FieldValidators(MirrorFields[i].name)[j], conv[i].v)}

\* the TypeError of __init__ called without the required field f
RaiseMissing(f) == Raise("TypeError", f.key, f.name, "missing", "", 0)

\* the ValueError of validator c on field f
RaiseValidation(f, c) == Raise("ValueError", <<>>, f.name, c.op, "", c.k)

\* the validators run in declaration order on the converted values, then
\* __attrs_post_init__ on the instance
ValidateFields(conv, bad) ==
    IF bad # {}
    THEN RaiseValidation(MirrorFields[Least(bad)],
                         FieldValidators(MirrorFields[Least(bad)].name)[
                             Least(FailingValidators(conv, Least(bad)))])
    ELSE Ok(__attrs_post_init__(
             [n \in {MirrorFields[i].name : i \in FieldIndex} |->
                 conv[CHOOSE i \in FieldIndex : MirrorFields[i].name = n].v]))

\* the ValueError of the converter of field f: converter_for_type, which wraps the
\* converters chosen by annotation, names the option and the type; a converter
\* given to field() explicitly (the enumerations) is not wrapped, its error
\* names neither
RaiseConversion(f) ==
    IF f.type \in {"bool", "int", "float", "PurePath"}
    THEN Raise("ValueError", f.key, f.name, "convert", f.type, 0)
    ELSE Raise("ValueError", <<>>, "", "convert", "", 0)

\* variant of ConstructFrom: each field is converted and validated before the
\* next field is converted
ConstructFrom_field_by_field(conv, badConv) ==
    IF badConv = {}
    THEN ValidateFields(conv, {i \in FieldIndex : FailingValidators(conv, i) # {}})
    ELSE IF \E i \in 1..(Least(badConv) - 1) : FailingValidators(conv, i) # {}
    THEN ValidateFields(conv, {i \in 1..(Least(badConv) - 1) : FailingValidators(conv, i) # {}})
    ELSE RaiseConversion(MirrorFields[Least(badConv)])

\* the first conversion that fails raises; otherwise the validators run
ConstructFrom(conv, badConv) ==
    IF badConv # {}
    THEN RaiseConversion(MirrorFields[Least(badConv)])
    ELSE ValidateFields(conv, {i \in FieldIndex : FailingValidators(conv, i) # {}})

ConvertAndValidate(conv) == ConstructFrom(conv, {i \in FieldIndex : ~conv[i].ok})

\* The attrs-generated __init__ called with keyword arguments kwargs (option key ->
\* text): every field is converted in declaration order, then every validator
\* runs in declaration order, then __attrs_post_init__.
MirrorConfiguration(kwargs) ==
    IF \E i \in FieldIndex : MirrorFields[i].required /\ MirrorFields[i].key \notin DOMAIN kwargs
    THEN RaiseMissing(MirrorFields[Least({i \in FieldIndex :
            MirrorFields[i].required /\ MirrorFields[i].key \notin DOMAIN kwargs})])
    ELSE ConvertAndValidate(ConvertFields(kwargs))

\* a configuration error as the caller of the validation sees it
ConfigError(cls, option, attr, reason, type, k) ==
    [ok |-> FALSE,
     err |-> [cls |-> cls, section |-> s_mirror, option |-> option, attr |-> attr,
              reason |-> reason, type |-> type, k |-> k]]

NoError ==
    [cls |-> "", section |-> <<>>, option |-> <<>>, attr |-> "",
     reason |-> "", type |-> "", k |-> 0]

\* SectionProxy.get(key): the value when the option exists, otherwise None
section_get(secs, section, key) ==
    IF has_option(secs, section, key) THEN Some(get_option(secs, section, key)) ELSE None

\* variant of FieldValue: an empty text counts as no value
FieldValue_empty_is_absent(secs, f, value) ==
    IF value = Some(<<>>) THEN None
    ELSE IF f.key = k_diff_file /\ value # None /\ _has_legacy_section_reference(value[1])
    THEN _eval_legacy_section_reference(secs, value[1])
    ELSE value

\* variant of FieldValue: a reference that does not resolve keeps its text
FieldValue_keeps_unresolved(secs, f, value) ==
    IF /\ f.key = k_diff_file
       /\ value # None
       /\ _has_legacy_section_reference(value[1])
       /\ _eval_legacy_section_reference(secs, value[1]) # None
    THEN _eval_legacy_section_reference(secs, value[1])
    ELSE value

\* the value from_config_parser keeps for field f: a legacy reference in diff_file
\* is replaced by its evaluation
FieldValue(secs, f, value) ==
    IF f.key = k_diff_file /\ value # None /\ _has_legacy_section_reference(value[1])
    THEN _eval_legacy_section_reference(secs, value[1])
    ELSE value

\* the keyword arguments: the fields whose value is not None, under their keys
KwargsOf(values) ==
    [key \in {MirrorFields[i].key : i \in {j \in FieldIndex : values[j] # None}} |->
        values[CHOOSE i \in FieldIndex : MirrorFields[i].key = key][1]]

CollectKwargs(secs) ==
    KwargsOf([i \in FieldIndex |->
                 FieldValue(secs, MirrorFields[i],
                            section_get(secs, s_mirror, MirrorFields[i].key))])

\* variant of MissingRequired: an empty text counts as a value
MissingRequired_absent_only(secs) ==
    {i \in FieldIndex :
        /\ MirrorFields[i].required
        /\ section_get(secs, s_mirror, MirrorFields[i].key) = None}

\* the required fields without a value in the section (absent, or empty text)
MissingRequired(secs) ==
    {i \in FieldIndex :
        /\ MirrorFields[i].required
        /\ section_get(secs, s_mirror, MirrorFields[i].key) \in {None, Some(<<>>)}}

\* the exceptions of __init__ as from_config_parser re-raises them
TranslateInit(built) ==
    IF built.ok THEN Ok(built.v)
    ELSE IF built.exc = "ValueError"
    THEN ConfigError("InvalidValueError", built.option, built.attr,
                     built.reason, built.type, built.k)
    ELSE ConfigError("ConfigurationError", built.option, built.attr,
                     built.reason, built.type, built.k)

BuildFrom(secs, missing) ==
    IF missing # {}
    THEN ConfigError("MissingOptionError", MirrorFields[Least(missing)].key,
                     "", "missing required option", "", 0)
    ELSE TranslateInit(MirrorConfiguration(CollectKwargs(secs)))

\* variant of from_config_parser: the fields are read without the section check
from_config_parser_without_section_check(secs) == BuildFrom(secs, MissingRequired(secs))

\* MirrorConfiguration.from_config_parser: the [mirror] section is looked up, then
\* for every field in declaration order the option is read under the field's key,
\* a required field without a value is an error, a legacy reference in diff_file
\* is evaluated, and the values found become the keyword arguments of __init__.
from_config_parser(secs) ==
    IF ~has_section(secs, s_mirror)
    THEN ConfigError("ConfigurationError", <<>>, "", "missing required section", "", 0)
    ELSE BuildFrom(secs, MissingRequired(secs))

----------------------------------------------------------------------------
(* Model types and the cache of validated objects *)

\* The classes handed to get_validated: the mirror model, a class of another
\* module that has the same __name__, and a class with a name of its own.
ModelTypes == {"mirror.MirrorConfiguration", "plugin.MirrorConfiguration",
               "plugin.FilterConfiguration"}

\* model.__name__
TypeName(model) ==
    IF model = "plugin.FilterConfiguration" THEN "FilterConfiguration"
    ELSE "MirrorConfiguration"

\* the instance of class model with the validated fields
InstanceOf(model, r) == IF r.ok THEN Ok([cls |-> model, fields |-> r.v]) ELSE r

\* model.from_config_source(config): the instance, or the error raised
from_config_source(model, secs) ==
    IF model = "mirror.MirrorConfiguration"
    THEN InstanceOf(model, from_config_parser(secs))
    ELSE Ok([cls |-> model, fields |-> [none |-> TRUE]])

\* the threads that may call get_validated concurrently
Threads == {1, 2}

NoCall == [called |-> FALSE]

CallResult(model, validated, ok, obj, err) ==
    [called |-> TRUE, model |-> model, validated |-> validated, ok |-> ok,
     obj |-> obj, err |-> err]

----------------------------------------------------------------------------
(* The configuration files a behaviour may load *)

rk_release_files == <<"r", "e", "l", "e", "a", "s", "e", "-", "f", "i", "l", "e", "s">>
rk_root_uri == <<"r", "o", "o", "t", "-", "u", "r", "i">>

\* the spellings under which keep_index_versions is written
KeepIndexVersionsSpellings ==
    {k_keep_index_versions,
     <<"k", "e", "e", "p", "-", "i", "n", "d", "e", "x", "-", "v", "e", "r", "s", "i", "o", "n",
             "s">>,
     <<"K", "e", "e", "p", "-", "I", "n", "d", "e", "x", "-", "V", "e", "r", "s", "i", "o", "n",
             "s">>,
     <<"K", "E", "E", "P", "_", "I", "N", "D", "E", "X", "_", "V", "E", "R", "S", "I", "O", "N",
             "S">>}

v_test == <<"/", "t", "e", "s", "t">>
v_uri == <<"h", "t", "t", "p", ":", "/", "/", "r">>

BoolValues == {<<"t", "r", "u", "e">>, <<"f", "a", "l", "s", "e">>}

\* a file is a [mirror] header followed by at most one option line; a longer file
\* is the merge of several loads
ConfigFiles ==
    {[section |-> s_mirror, options |-> <<>>]}
    \cup {[section |-> s_mirror, options |-> <<line>>] :
             line \in ({k_directory} \X {<<>>, v_test, <<"/">>})
                      \cup ({k_workers, k_verifiers}
                            \X {<<"-", "1">>, <<"0">>, <<"1">>, <<"1", "0">>, <<"1", "1">>})
                      \cup ({k_timeout,
                             <<"g", "l", "o", "b", "a", "l", "-", "t", "i", "m", "e", "o", "u", "t">>}
                            \X {<<"-", "1">>, <<"0">>, <<"1", ".", "9">>,
                                <<"1", "0", "0", "0", ".", "0">>})
                      \cup ({rk_release_files} \X BoolValues)
                      \cup ({rk_root_uri} \X {v_uri})
                      \cup (KeepIndexVersionsSpellings \X {<<"3">>})}

----------------------------------------------------------------------------
(* Operations *)

Init ==
    /\ sections = <<>>
    /\ validated_objects = <<>>
    /\ heap = <<>>
    /\ writes = 0
    /\ last = NoCall
    /\ returned = [m \in ModelTypes |-> {}]
    /\ validations = [m \in ModelTypes |-> 0]
    /\ written = <<>>
    /\ refcall = NoCall
    /\ pc = [t \in Threads |-> "idle"]
    /\ tmodel = [t \in Threads |-> "mirror.MirrorConfiguration"]
    /\ tobj = [t \in Threads |-> 0]
    /\ patterns = [plugin \in {"regex_release", "regex_project"} |-> None]
    /\ filtered = NoCall
    /\ _instances = <<>>
    /\ managers = <<>>
    /\ parsers = <<>>
    /\ constructed = <<>>

\* BandersnatchConfig.load_user_config: the file is read into the parser
load_user_config(file) ==
    /\ writes < MaxWrites
    /\ \A t \in Threads : pc[t] = "idle"
    /\ sections' = read_file(sections, file)
    /\ writes' = writes + 1
    /\ last' = NoCall
    /\ written' = IF file.options = <<>> THEN <<>> ELSE file.options[Len(file.options)][1]
    /\ UNCHANGED <<validated_objects, heap, returned, validations, refcall, pc, tmodel,
                   tobj,
                   patterns, filtered, _instances, managers, parsers, constructed>>

\* the call finds the name in the cache and returns the cached object
CacheHit(model, obj) ==
    /\ last' = CallResult(model, FALSE, TRUE, obj, NoError)
    /\ returned' = [returned EXCEPT ![model] = @ \cup {obj}]
    /\ UNCHANGED <<validated_objects, heap, validations>>

\* variant of CacheMiss: a failed validation leaves an entry without instance
CacheMiss_stores_failure(model, name, r, obj) ==
    IF r.ok
    THEN /\ heap' = Append(heap, r.v)
         /\ validated_objects' = Put(validated_objects, name, obj)
         /\ validations' = [validations EXCEPT ![model] = @ + 1]
         /\ last' = CallResult(model, TRUE, TRUE, obj, NoError)
         /\ returned' = [returned EXCEPT ![model] = @ \cup {obj}]
    ELSE /\ last' = CallResult(model, TRUE, FALSE, 0, r.err)
         /\ validated_objects' = Put(validated_objects, name, 0)
         /\ UNCHANGED <<heap, validations, returned>>

\* the call validates: the instance is stored under the name, or the error raised
CacheMiss(model, name, r, obj) ==
    IF r.ok
    THEN /\ heap' = Append(heap, r.v)
         /\ validated_objects' = Put(validated_objects, name, obj)
         /\ validations' = [validations EXCEPT ![model] = @ + 1]
         /\ last' = CallResult(model, TRUE, TRUE, obj, NoError)
         /\ returned' = [returned EXCEPT ![model] = @ \cup {obj}]
    ELSE /\ last' = CallResult(model, TRUE, FALSE, 0, r.err)
         /\ UNCHANGED <<validated_objects, heap, validations, returned>>

\* BandersnatchConfig.get_validated(model), run from call to return by one thread
get_validated(model) ==
    /\ \A t \in Threads : pc[t] = "idle"
    /\ IF TypeName(model) \in DOMAIN validated_objects
       THEN CacheHit(model, validated_objects[TypeName(model)])
       ELSE CacheMiss(model, TypeName(model), from_config_source(model, sections),
                      Len(heap) + 1)
    /\ UNCHANGED <<sections, writes, written, refcall, pc, tmodel, tobj,
                   patterns, filtered, _instances, managers, parsers, constructed>>

Next ==
    \/ \E file \in ConfigFiles : load_user_config(file)
    \/ \E model \in ModelTypes : get_validated(model)

Spec == Init /\ [][Next]_vars

----------------------------------------------------------------------------
(* get_validated called by several threads: one action per point at which the *)
(* interpreter may switch threads                                             *)

\* at start-up no file, a [mirror] section without directory, with an empty one
\* or with /test has been loaded
InitConc ==
    /\ sections \in {<<>>} \cup
           {read_file(<<>>, [section |-> s_mirror, options |-> options]) :
               options \in {<<>>, << <<k_directory, <<>> >> >>, << <<k_directory, v_test>> >>}}
    /\ validated_objects = <<>>
    /\ heap = <<>>
    /\ writes = 0
    /\ last = NoCall
    /\ returned = [m \in ModelTypes |-> {}]
    /\ validations = [m \in ModelTypes |-> 0]
    /\ written = <<>>
    /\ refcall = NoCall
    /\ pc = [t \in Threads |-> "idle"]
    /\ tmodel = [t \in Threads |-> "mirror.MirrorConfiguration"]
    /\ tobj = [t \in Threads |-> 0]
    /\ patterns = [plugin \in {"regex_release", "regex_project"} |-> None]
    /\ filtered = NoCall
    /\ _instances = <<>>
    /\ managers = <<>>
    /\ parsers = <<>>
    /\ constructed = <<>>

\* thread t enters get_validated(model)
get_validated_call(t, model) ==
    /\ pc[t] = "idle"
    /\ pc' = [pc EXCEPT ![t] = "check"]
    /\ tmodel' = [tmodel EXCEPT ![t] = model]
    /\ UNCHANGED <<sections, validated_objects, heap, writes, last, returned,
                   validations, written, refcall, tobj,
                   patterns, filtered, _instances, managers, parsers, constructed>>

\* if name not in self._validated_objects
get_validated_check(t) ==
    /\ pc[t] = "check"
    /\ pc' = [pc EXCEPT ![t] = IF TypeName(tmodel[t]) \in DOMAIN validated_objects
                               THEN "return" ELSE "validate"]
    /\ UNCHANGED <<sections, validated_objects, heap, writes, last, returned,
                   validations, written, refcall, tmodel, tobj,
                   patterns, filtered, _instances, managers, parsers, constructed>>

\* the outcome of model.from_config_source(self) in thread t
ValidationDone(t, r, obj) ==
    IF r.ok
    THEN /\ heap' = Append(heap, r.v)
         /\ tobj' = [tobj EXCEPT ![t] = obj]
         /\ validations' = [validations EXCEPT ![tmodel[t]] = @ + 1]
         /\ pc' = [pc EXCEPT ![t] = "store"]
         /\ UNCHANGED last
    ELSE /\ last' = CallResult(tmodel[t], TRUE, FALSE, 0, r.err)
         /\ pc' = [pc EXCEPT ![t] = "idle"]
         /\ UNCHANGED <<heap, tobj, validations>>

\* model.from_config_source(self)
get_validated_validate(t) ==
    /\ pc[t] = "validate"
    /\ ValidationDone(t, from_config_source(tmodel[t], sections), Len(heap) + 1)
    /\ UNCHANGED <<sections, validated_objects, writes, returned, written, refcall,
                   tmodel,
                   patterns, filtered, _instances, managers, parsers, constructed>>

\* self._validated_objects[name] = ...
get_validated_store(t) ==
    /\ pc[t] = "store"
    /\ validated_objects' = Put(validated_objects, TypeName(tmodel[t]), tobj[t])
    /\ pc' = [pc EXCEPT ![t] = "return"]
    /\ UNCHANGED <<sections, heap, writes, last, returned, validations, written,
                   refcall, tmodel, tobj,
                   patterns, filtered, _instances, managers, parsers, constructed>>

\* return self._validated_objects[name]
get_validated_return(t) ==
    /\ pc[t] = "return"
    /\ returned' = [returned EXCEPT ![tmodel[t]] =
                        @ \cup {validated_objects[TypeName(tmodel[t])]}]
    /\ last' = CallResult(tmodel[t], tobj[t] # 0, TRUE,
                          validated_objects[TypeName(tmodel[t])], NoError)
    /\ pc' = [pc EXCEPT ![t] = "idle"]
    /\ tobj' = [tobj EXCEPT ![t] = 0]
    /\ UNCHANGED <<sections, validated_objects, heap, writes, validations, written,
                   refcall, tmodel,
                   patterns, filtered, _instances, managers, parsers, constructed>>

NextConc ==
    \/ \E t \in Threads, model \in ModelTypes : get_validated_call(t, model)
    \/ \E t \in Threads : get_validated_check(t)
    \/ \E t \in Threads : get_validated_validate(t)
    \/ \E t \in Threads : get_validated_store(t)
    \/ \E t \in Threads : get_validated_return(t)

SpecConc == InitConc /\ [][NextConc]_vars

----------------------------------------------------------------------------
(* eval_legacy_reference applied to values of the reference shape *)

k_woops == <<"w", "o", "o", "p", "s">>

\* the sources: empty, a [mirror] section, and three sections: [mirror] with
\* directory = /test, [strings] with test = TESTING, [s] with x = /v
RefSources ==
    {<<>>,
     read_file(<<>>, [section |-> s_mirror, options |-> << <<k_directory, v_test>> >>]),
     read_file(read_file(read_file(<<>>,
         [section |-> s_mirror, options |-> << <<k_directory, v_test>> >>]),
         [section |-> <<"s", "t", "r", "i", "n", "g", "s">>,
          options |-> << <<<<"t", "e", "s", "t">>, <<"T", "E", "S", "T", "I", "N", "G">>>> >>]),
         [section |-> <<"s">>, options |-> << <<<<"x">>, <<"/", "v">> >> >>])}

\* the text of an input: prefix {{ blanks section separator option blanks }} suffix
RefValue(in) ==
    in.prefix \o <<"{", "{">> \o in.blanks \o in.section \o <<in.sep>> \o in.option
        \o in.blanks \o <<"}", "}">> \o in.suffix

\* the input and the fallback are drawn before the call
InitRef ==
    /\ sections \in RefSources
    /\ validated_objects = <<>>
    /\ heap = <<>>
    /\ writes = 0
    /\ last = NoCall
    /\ returned = [m \in ModelTypes |-> {}]
    /\ validations = [m \in ModelTypes |-> 0]
    /\ written = <<>>
    /\ refcall \in [called : {FALSE}, has : {None},
                    in : [prefix : {<<>>, <<"/", "v", "a", "r", "/">>},
                          blanks : {<<>>, <<" ">>, <<"\n">>},
                          section : {s_mirror, <<"s", "t", "r", "i", "n", "g", "s">>,
                                     <<"s">>, <<"n", "o", "s", "u", "c", "h">>},
                          sep : {"_", "."},
                          option : {k_directory, <<"t", "e", "s", "t">>, <<"x">>, k_woops},
                          suffix : {<<>>, <<"/", "f", "o", "o">>}],
                    fallback : {UNSET, FallbackNone, Text(<<"/", "f", "b">>)}]
    /\ pc = [t \in Threads |-> "idle"]
    /\ tmodel = [t \in Threads |-> "mirror.MirrorConfiguration"]
    /\ tobj = [t \in Threads |-> 0]
    /\ patterns = [plugin \in {"regex_release", "regex_project"} |-> None]
    /\ filtered = NoCall
    /\ _instances = <<>>
    /\ managers = <<>>
    /\ parsers = <<>>
    /\ constructed = <<>>

\* the call eval_legacy_reference(config, value, fallback=...) on the source
eval_legacy_reference_call ==
    /\ ~refcall.called
    /\ refcall' = [called |-> TRUE, has |-> refcall.has, in |-> refcall.in,
                   value |-> RefValue(refcall.in),
                   fallback |-> refcall.fallback,
                   result |-> eval_legacy_reference(sections, RefValue(refcall.in),
                                                    refcall.fallback)]
    /\ UNCHANGED <<sections, validated_objects, heap, writes, last, returned,
                   validations, written, pc, tmodel, tobj,
                   patterns, filtered, _instances, managers, parsers, constructed>>

\* the call has_legacy_reference(value) on the text of the input
has_legacy_reference_call ==
    /\ refcall.has = None
    /\ refcall' = [refcall EXCEPT !.has = Some(has_legacy_reference(RefValue(refcall.in)))]
    /\ UNCHANGED <<sections, validated_objects, heap, writes, last, returned,
                   validations, written, pc, tmodel, tobj,
                   patterns, filtered, _instances, managers, parsers, constructed>>

NextRef == eval_legacy_reference_call \/ has_legacy_reference_call

SpecRef == InitRef /\ [][NextRef]_vars

----------------------------------------------------------------------------
(* Validation of [mirror] sections that set diff-file, root-uri, release-files *)

s_test == <<"t", "e", "s", "t">>
k_example == <<"e", "x", "a", "m", "p", "l", "e">>
ref_mirror_directory == <<"{", "{", " ", "m", "i", "r", "r", "o", "r", "_", "d", "i", "r", "e",
        "c", "t", "o", "r", "y", " ", "}", "}">>
ref_test_example == <<"{", "{", " ", "t", "e", "s", "t", "_", "e", "x", "a", "m", "p", "l", "e",
        " ", "}", "}">>
ref_test_example_suffix == <<"{", "{", " ", "t", "e", "s", "t", "_", "e", "x", "a", "m", "p",
        "l", "e", " ", "}", "}", "/", "b", "a", "n", "d", "e", "r", "s", "n", "a", "t", "c", "h">>
ref_prefix_test_example == <<"/", "s", "r", "v", "/", "{", "{", " ", "t", "e", "s", "t", "_",
        "e", "x", "a", "m", "p", "l", "e", " ", "}", "}">>
ref_mirror_woops == <<"{", "{", " ", "m", "i", "r", "r", "o", "r", "_", "w", "o", "o", "p", "s",
        " ", "}", "}">>
ref_nosuch_option == <<"{", "{", " ", "n", "o", "s", "u", "c", "h", "_", "o", "p", "t", "i", "o",
        "n", " ", "}", "}">>

\* the legacy references written in diff-file
DiffFileReferences ==
    {ref_mirror_directory, ref_test_example, ref_test_example_suffix,
     ref_prefix_test_example, ref_mirror_woops, ref_nosuch_option}

\* the files: one option line of [mirror], or the section [test]
DiffFiles ==
    {[section |-> s_mirror, options |-> <<line>>] :
        line \in ({<<"d", "i", "f", "f", "-", "f", "i", "l", "e">>}
                     \X ({<<"/", "t", "m", "p", "/", "d", "i", "f", "f", "s">>} \cup DiffFileReferences))
                 \cup ({rk_release_files} \X BoolValues)
                 \cup ({rk_root_uri} \X {v_uri, <<>>})}
    \cup {[section |-> s_test,
           options |-> << <<k_example, <<"/", "v", "a", "r", "/", "l", "o", "g">>>> >>]}

\* at start-up a [mirror] section with its directory has been loaded
InitDiff ==
    /\ sections \in {read_file(<<>>, [section |-> s_mirror,
                                      options |-> << <<k_directory, dir>> >>]) :
                        dir \in {<<"/">>, v_test,
                                 <<"/", "o", "p", "t", "/", "m", "i", "r", "r", "o", "r">>}}
    /\ validated_objects = <<>>
    /\ heap = <<>>
    /\ writes = 0
    /\ last = NoCall
    /\ returned = [m \in ModelTypes |-> {}]
    /\ validations = [m \in ModelTypes |-> 0]
    /\ written = <<>>
    /\ refcall = NoCall
    /\ pc = [t \in Threads |-> "idle"]
    /\ tmodel = [t \in Threads |-> "mirror.MirrorConfiguration"]
    /\ tobj = [t \in Threads |-> 0]
    /\ patterns = [plugin \in {"regex_release", "regex_project"} |-> None]
    /\ filtered = NoCall
    /\ _instances = <<>>
    /\ managers = <<>>
    /\ parsers = <<>>
    /\ constructed = <<>>

NextDiff ==
    \/ \E file \in DiffFiles : load_user_config(file)
    \/ get_validated("mirror.MirrorConfiguration")

SpecDiff == InitDiff /\ [][NextDiff]_vars

----------------------------------------------------------------------------
(* Validation of [mirror] sections that set integer and boolean options *)

\* the spellings of the booleans, and a text that is none
TrueTexts ==
    {<<"o", "n">>,
     <<"O", "N">>,
     <<"O", "n">>,
     <<"y", "e", "s">>,
     <<"Y", "E", "S">>,
     <<"Y", "e", "s">>,
     <<"t", "r", "u", "e">>,
     <<"T", "R", "U", "E">>,
     <<"T", "r", "u", "e">>}
FalseTexts ==
    {<<"n", "o">>,
     <<"N", "O">>,
     <<"N", "o">>,
     <<"o", "f", "f">>,
     <<"O", "F", "F">>,
     <<"O", "f", "f">>,
     <<"f", "a", "l", "s", "e">>,
     <<"F", "A", "L", "S", "E">>,
     <<"F", "a", "l", "s", "e">>}
v_nope == <<"n", "o", "p", "e">>

\* the texts of the integer 1, and texts that are no integer
OneTexts == {<<"1">>,
            <<"0", "1">>,
            <<"0", "_", "1">>}
NotIntegerTexts == {<<"1", "_">>,
                   <<"f", "o", "o", "e", "y">>,
                   <<"n", "o">>}

\* the boolean option lines: every spelling on diff-append-epoch, and a
\* capitalized, an upper-case and a wrong one on each other boolean option
BooleanFiles ==
    {[section |-> s_mirror, options |-> <<line>>] :
        line \in ({<<"d", "i", "f", "f", "-", "a", "p", "p", "e", "n", "d", "-", "e", "p", "o", "c", "h">>}
                     \X (TrueTexts \cup FalseTexts \cup {v_nope}))
                 \cup ({<<"d", "o", "w", "n", "l", "o", "a", "d", "-", "m", "i", "r", "r", "o", "r", "-", "n", "o", "-", "f", "a", "l", "l", "b", "a", "c", "k">>,
                        rk_release_files, k_json, <<"h", "a", "s", "h", "-", "i", "n", "d", "e", "x">>,
                        <<"s", "t", "o", "p", "-", "o", "n", "-", "e", "r", "r", "o", "r">>, k_cleanup}
                       \X {<<"Y", "e", "s">>, <<"O", "F", "F">>, v_nope})}

\* the integer option lines: every integer text on every integer option
IntegerFiles ==
    {[section |-> s_mirror, options |-> <<line>>] :
        line \in {k_workers, k_verifiers,
                  <<"k", "e", "e", "p", "-", "i", "n", "d", "e", "x", "-", "v", "e", "r", "s", "i", "o", "n", "s">>}
                 \X (OneTexts \cup NotIntegerTexts)}

\* at start-up a [mirror] section with directory = /test has been loaded
InitConv ==
    /\ sections = read_file(<<>>, [section |-> s_mirror,
                                   options |-> << <<k_directory, v_test>> >>])
    /\ validated_objects = <<>>
    /\ heap = <<>>
    /\ writes = 0
    /\ last = NoCall
    /\ returned = [m \in ModelTypes |-> {}]
    /\ validations = [m \in ModelTypes |-> 0]
    /\ written = <<>>
    /\ refcall = NoCall
    /\ pc = [t \in Threads |-> "idle"]
    /\ tmodel = [t \in Threads |-> "mirror.MirrorConfiguration"]
    /\ tobj = [t \in Threads |-> 0]
    /\ patterns = [plugin \in {"regex_release", "regex_project"} |-> None]
    /\ filtered = NoCall
    /\ _instances = <<>>
    /\ managers = <<>>
    /\ parsers = <<>>
    /\ constructed = <<>>

NextInt ==
    \/ \E file \in IntegerFiles : load_user_config(file)
    \/ get_validated("mirror.MirrorConfiguration")

SpecInt == InitConv /\ [][NextInt]_vars

NextBool ==
    \/ \E file \in BooleanFiles : load_user_config(file)
    \/ get_validated("mirror.MirrorConfiguration")

SpecBool == InitConv /\ [][NextBool]_vars

----------------------------------------------------------------------------
(* Validation of [mirror] sections with empty and with invalid values *)

\* the values that are invalid for their option
v_foo == <<"f", "o", "o">>
v_bogus == <<"b", "o", "g", "u", "s">>

\* the option lines: every option with an empty value, and invalid values on
\* options declared early and late
InvalidFiles ==
    {[section |-> s_mirror, options |-> <<line>>] :
        line \in ({MirrorFields[i].key : i \in FieldIndex} \X {<<>>})
                 \cup {<<k_workers, v_foo>>, <<k_workers, <<"1", "1">> >>,
                       <<k_timeout, <<"0">> >>, <<k_release_files, v_nope>>,
                       <<k_keep_index_versions, <<"-", "1">> >>,
                       <<<<"s", "i", "m", "p", "l", "e", "_", "f", "o", "r", "m", "a", "t">>, v_bogus>>,
                       <<<<"d", "i", "g", "e", "s", "t", "_", "n", "a", "m", "e">>, v_bogus>>}}

NextInvalid ==
    \/ \E file \in InvalidFiles : load_user_config(file)
    \/ get_validated("mirror.MirrorConfiguration")

SpecInvalid == InitConv /\ [][NextInvalid]_vars

----------------------------------------------------------------------------
(* The regex filter plugins *)

\* one character of the text against the pattern item at position i: "." takes
\* every character but a line break, "\d" a decimal digit, "\" and a character
\* other than "d" that character, and every other character itself
ItemTakes(p, i, c) ==
    IF p[i] = "." THEN c # "\n"
    ELSE IF p[i] = "\\" THEN (IF p[i + 1] = "d" THEN IsDigit(c) ELSE c = p[i + 1])
    ELSE c = p[i]

\* the position after the pattern item at position i
ItemEnd(p, i) == IF p[i] = "\\" THEN i + 2 ELSE i + 1

\* the pattern from position i on matches a text starting at position j of s:
\* items, items repeated with "+", and "$" for the end of the text or the
\* position before a line break that ends it
RECURSIVE MatchAt(_, _, _, _)
MatchAt(p, i, s, j) ==
    IF i > Len(p) THEN TRUE
    ELSE IF p[i] = "$"
    THEN (j = Len(s) + 1 \/ (j = Len(s) /\ s[j] = "\n")) /\ MatchAt(p, i + 1, s, j)
    ELSE IF ItemEnd(p, i) <= Len(p) /\ p[ItemEnd(p, i)] = "+"
    THEN \E k \in j..Len(s) :
             /\ \A x \in j..k : ItemTakes(p, i, s[x])
             /\ MatchAt(p, ItemEnd(p, i) + 1, s, k + 1)
    ELSE /\ j <= Len(s)
         /\ ItemTakes(p, i, s[j])
         /\ MatchAt(p, ItemEnd(p, i), s, j + 1)

\* variant of match: pattern.search(text), a match starting anywhere in the text
match_anywhere(pattern, text) == \E j \in 1..(Len(text) + 1) : MatchAt(pattern, 1, text, j)

\* pattern.match(text) is not None: the pattern matches at the start of the text
match(pattern, text) == MatchAt(pattern, 1, text, 1)

\* str.split("\n")
RECURSIVE SplitLines(_)
SplitLines(text) ==
    IF \A i \in 1..Len(text) : text[i] # "\n" THEN <<text>>
    ELSE <<PartitionBy(text, "\n").before>> \o SplitLines(PartitionBy(text, "\n").after)

\* the section the plugins read, and the option of each plugin
filter_regex ==
    [section |-> <<"f", "i", "l", "t", "e", "r", "_", "r", "e", "g", "e", "x">>,
     regex_release |-> <<"r", "e", "l", "e", "a", "s", "e", "s">>,
     regex_project |-> <<"p", "a", "c", "k", "a", "g", "e", "s">>]

\* the 'patterns' attribute a plugin sees: its own, or the empty list of its class
PatternsOf(plugin) == IF patterns[plugin] = None THEN <<>> ELSE patterns[plugin][1]

\* the plugin is created and initialize_plugin runs, or initialize_plugin runs
\* again: without the option nothing is assigned; with it, and with no patterns
\* so far, the non-empty lines of the value are compiled
initialize_plugin(plugin) ==
    /\ patterns' = [patterns EXCEPT ![plugin] =
           IF ~has_option(sections, filter_regex.section, filter_regex[plugin])
           THEN Some(PatternsOf(plugin))
           ELSE IF PatternsOf(plugin) # <<>> THEN Some(PatternsOf(plugin))
           ELSE Some(SelectSeq(
                    SplitLines(get_option(sections, filter_regex.section, filter_regex[plugin])),
                    LAMBDA pattern : pattern # <<>>))]
    /\ UNCHANGED <<sections, validated_objects, heap, writes, last, returned,
                   validations, written, refcall, pc, tmodel, tobj, filtered,
                   _instances, managers, parsers,
                   constructed>>

\* RegexReleaseFilter.filter(metadata): False at the first pattern that matches
\* metadata["version"], True when none does
RegexReleaseFilter_filter ==
    /\ patterns["regex_release"] # None
    /\ filtered' =
           [called |-> TRUE, metadata |-> filtered.metadata, plugin |-> "regex_release",
            method |-> "filter", kwargs |-> <<>>, ok |-> TRUE,
            v |-> ~\E i \in 1..Len(PatternsOf("regex_release")) :
                      match(PatternsOf("regex_release")[i], filtered.metadata.version)]
    /\ UNCHANGED <<sections, validated_objects, heap, writes, last, returned,
                   validations, written, refcall, pc, tmodel, tobj, patterns,
                   _instances, managers, parsers,
                   constructed>>

\* variant of check_match: without 'name' the verdict is False
check_match_without_name_returns_False(kwargs) ==
    IF "name" \notin DOMAIN kwargs THEN Ok(FALSE)
    ELSE Ok(\E i \in 1..Len(PatternsOf("regex_project")) :
                match(PatternsOf("regex_project")[i], kwargs.name))

\* RegexProjectFilter.check_match(**kwargs): ValueError without 'name', True at
\* the first pattern that matches the name, False when none does
check_match(kwargs) ==
    IF "name" \notin DOMAIN kwargs THEN Fail
    ELSE Ok(\E i \in 1..Len(PatternsOf("regex_project")) :
                match(PatternsOf("regex_project")[i], kwargs.name))

\* a call plugin.check_match(name=...) or plugin.check_match()
check_match_call(kwargs) ==
    /\ patterns["regex_project"] # None
    /\ filtered' =
           [called |-> TRUE, metadata |-> filtered.metadata, plugin |-> "regex_project",
            method |-> "check_match", kwargs |-> kwargs, ok |-> check_match(kwargs).ok,
            v |-> IF check_match(kwargs).ok THEN check_match(kwargs).v ELSE FALSE]
    /\ UNCHANGED <<sections, validated_objects, heap, writes, last, returned,
                   validations, written, refcall, pc, tmodel, tobj, patterns,
                   _instances, managers, parsers,
                   constructed>>

\* RegexProjectFilter.filter(metadata)
RegexProjectFilter_filter ==
    /\ patterns["regex_project"] # None
    /\ filtered' =
           [called |-> TRUE, metadata |-> filtered.metadata, plugin |-> "regex_project",
            method |-> "filter", kwargs |-> <<>>, ok |-> TRUE,
            v |-> ~check_match([name |-> filtered.metadata.info.name]).v]
    /\ UNCHANGED <<sections, validated_objects, heap, writes, last, returned,
                   validations, written, refcall, pc, tmodel, tobj, patterns,
                   _instances, managers, parsers,
                   constructed>>

\* the configuration of the plugins: no [filter_regex] section, an empty one, or
\* one with both options; the value of an option is empty, one pattern, the two
\* patterns of the plugin's test on lines of their own, or these, an empty line
\* and a pattern without "$"
FilterSources ==
    LET Values(a, b) ==
            {<<>>, a, <<"\n">> \o a \o <<"\n">> \o b,
             <<"\n">> \o a \o <<"\n">> \o b \o <<"\n", "\n", "1", ".", "2">>}
    IN  {<<>>, read_file(<<>>, [section |-> filter_regex.section, options |-> <<>>])} \cup
        {read_file(<<>>, [section |-> filter_regex.section,
                          options |-> << <<filter_regex.regex_release, r>>,
                                         <<filter_regex.regex_project, q>> >>]) :
            r \in Values(<<".", "+", "r", "c", "\\", "d", "$">>,
                         <<".", "+", "a", "l", "p", "h", "a", "\\", "d", "$">>),
            q \in Values(<<".", "+", "-", "e", "v", "i", "l", "$">>,
                         <<".", "+", "-", "n", "e", "u", "t", "r", "a", "l", "$">>)}

\* the configuration and the metadata are drawn before the plugins are created:
\* the project names and release versions of the plugins' tests, and texts that
\* differ from them at the start or at the end
InitFilter ==
    /\ sections \in FilterSources
    /\ validated_objects = <<>>
    /\ heap = <<>>
    /\ writes = 0
    /\ last = NoCall
    /\ returned = [m \in ModelTypes |-> {}]
    /\ validations = [m \in ModelTypes |-> 0]
    /\ written = <<>>
    /\ refcall = NoCall
    /\ pc = [t \in Threads |-> "idle"]
    /\ tmodel = [t \in Threads |-> "mirror.MirrorConfiguration"]
    /\ tobj = [t \in Threads |-> 0]
    /\ patterns = [plugin \in {"regex_release", "regex_project"} |-> None]
    /\ filtered \in [called : {FALSE},
                     metadata : [info : [name : {<<"f", "o", "o", "-", "g", "o", "o", "d">>, <<"f", "o", "o", "-", "e", "v", "i", "l">>,
                                                <<"f", "o", "o", "-", "n", "e", "u", "t", "r", "a", "l">>, <<"-", "e", "v", "i", "l">>,
                                                <<"f", "o", "o", "-", "e", "v", "i", "l", "2">>}],
                                 version : {<<"f", "o", "o", "-", "1", ".", "2", ".", "0", "r", "c", "2">>,
                                            <<"f", "o", "o", "-", "1", ".", "2", ".", "0">>,
                                            <<"f", "o", "o", "-", "1", ".", "2", ".", "0", "a", "l", "p", "h", "a", "2">>,
                                            <<"1", ".", "2", ".", "0">>, <<"r", "c", "1">>}]]
    /\ _instances = <<>>
    /\ managers = <<>>
    /\ parsers = <<>>
    /\ constructed = <<>>

NextFilter ==
    \/ \E plugin \in {"regex_release", "regex_project"} : initialize_plugin(plugin)
    \/ RegexReleaseFilter_filter
    \/ RegexProjectFilter_filter
    \/ check_match_call([name |-> filtered.metadata.info.name])
    \/ check_match_call(<<>>)

SpecFilter == InitFilter /\ [][NextFilter]_vars

----------------------------------------------------------------------------
(* The configuration manager of next.py, a singleton *)

\* a call create_config_parser() by a caller of the manager: a new, empty parser
create_config_parser ==
    /\ Len(parsers) < MaxParsers
    /\ parsers' = Append(parsers, <<>>)
    /\ UNCHANGED <<sections, validated_objects, heap, writes, last, returned,
                   validations, written, refcall, pc, tmodel, tobj, patterns, filtered,
                   _instances, managers, constructed>>

\* variant of Singleton___call__: every call creates a manager and registers it
Singleton___call___always_constructs(config_parser) ==
    /\ Len(constructed) < MaxConstructions
    /\ parsers' = IF config_parser = None THEN Append(parsers, <<>>) ELSE parsers
    /\ managers' = Append(managers,
           [config_parser |-> IF config_parser = None THEN Len(parsers) + 1
                              ELSE config_parser[1],
            _typed_configs |-> <<>>])
    /\ _instances' = Put(_instances, "BandersnatchConfig", Len(managers) + 1)
    /\ constructed' = Append(constructed,
           [config_parser |-> config_parser, instance |-> Len(managers) + 1])
    /\ UNCHANGED <<sections, validated_objects, heap, writes, last, returned,
                   validations, written, refcall, pc, tmodel, tobj, patterns, filtered>>

\* Singleton.__call__ for the class BandersnatchConfig: a call
\* BandersnatchConfig(config_parser), run from call to return. When the class is
\* registered, its instance is the result; otherwise BandersnatchConfig.__init__
\* sets the attributes of a new manager, whose parser is the one given or a new
\* one, and the manager is registered
Singleton___call__(config_parser) ==
    /\ Len(constructed) < MaxConstructions
    /\ IF "BandersnatchConfig" \in DOMAIN _instances
       THEN /\ constructed' = Append(constructed,
                   [config_parser |-> config_parser,
                    instance |-> _instances["BandersnatchConfig"]])
            /\ UNCHANGED <<_instances, managers, parsers>>
       ELSE /\ parsers' = IF config_parser = None THEN Append(parsers, <<>>) ELSE parsers
            /\ managers' = Append(managers,
                   [config_parser |-> IF config_parser = None THEN Len(parsers) + 1
                                      ELSE config_parser[1],
                    _typed_configs |-> <<>>])
            /\ _instances' = Put(_instances, "BandersnatchConfig", Len(managers) + 1)
            /\ constructed' = Append(constructed,
                   [config_parser |-> config_parser, instance |-> Len(managers) + 1])
    /\ UNCHANGED <<sections, validated_objects, heap, writes, last, returned,
                   validations, written, refcall, pc, tmodel, tobj, patterns, filtered>>

\* BandersnatchConfig.load_file on manager m: the file is read into its parser
load_file(m, file) ==
    /\ writes < MaxWrites
    /\ parsers' = [parsers EXCEPT ![managers[m].config_parser] = read_file(@, file)]
    /\ writes' = writes + 1
    /\ UNCHANGED <<sections, validated_objects, heap, last, returned, validations,
                   written, refcall, pc, tmodel, tobj, patterns, filtered, _instances,
                   managers, constructed>>

\* BandersnatchConfig.get_typed(MirrorConfiguration) on manager m: on a miss the
\* model is validated against the manager's parser and stored under its name,
\* unless the validation raises
get_typed(m) ==
    /\ managers' =
           IF "MirrorConfiguration" \in DOMAIN managers[m]._typed_configs
              \/ ~from_config_parser(parsers[managers[m].config_parser]).ok
           THEN managers
           ELSE [managers EXCEPT ![m]._typed_configs =
                    Put(@, "MirrorConfiguration",
                        from_config_parser(parsers[managers[m].config_parser]).v)]
    /\ UNCHANGED <<sections, validated_objects, heap, writes, last, returned,
                   validations, written, refcall, pc, tmodel, tobj, patterns, filtered,
                   _instances, parsers, constructed>>

NextSingleton ==
    \/ create_config_parser
    \/ \E config_parser \in {None} \cup {Some(parser) : parser \in 1..Len(parsers)} :
           Singleton___call__(config_parser)
    \/ \E m \in 1..Len(managers),
          options \in {<< <<k_directory, v_test>> >>, << <<k_json, <<"t", "r", "u", "e">> >> >>} :
           load_file(m, [section |-> s_mirror, options |-> options])
    \/ \E m \in 1..Len(managers) : get_typed(m)

SpecSingleton == Init /\ [][NextSingleton]_vars

----------------------------------------------------------------------------
(* Properties *)

Mirror == "mirror.MirrorConfiguration"

\* the most recent call validated the mirror model against the current source
MirrorValidated == last.called /\ last.model = Mirror /\ last.validated

\* the normalised option names stored in the [mirror] section
MirrorOptions == IF has_section(sections, s_mirror) THEN DOMAIN sections[s_mirror] ELSE {}

\* the text stored for an option of the [mirror] section
MirrorText(key) == sections[s_mirror][key]

\* 'directory' is set to a non-empty text
DirectoryGiven == k_directory \in MirrorOptions /\ MirrorText(k_directory) # <<>>

\* the fields of the instance the most recent call returned
ValidatedFields == heap[last.obj].fields

\* C1: for every model type M, all successful get_validated(M) calls return one
\* and the same instance, and M's validation has run exactly once when a call
\* for M has succeeded.
C1_SameInstanceValidatedOnce ==
    \A m \in ModelTypes :
        /\ Cardinality(returned[m]) <= 1
        /\ returned[m] # {} => validations[m] = 1

\* C2: when threads call get_validated concurrently, the validation of a model
\* type runs at most once and all callers of that type get the same instance.
C2_ConcurrentCallsValidateOnce ==
    \A m \in ModelTypes :
        /\ validations[m] <= 1
        /\ Cardinality(returned[m]) <= 1

\* C3: the cache is keyed by the model type: every instance get_validated(M)
\* returns is an instance of M, produced by M's validation.
C3_KeyedByModelType ==
    \A m \in ModelTypes : \A obj \in returned[m] : heap[obj].cls = m

\* C4: validating the mirror model against a source without a [mirror] section
\* fails with a configuration error that names the section and no option: the
\* error of the section check, raised before any field is looked at.
C4_MissingSectionFails ==
    (MirrorValidated /\ ~has_section(sections, s_mirror)) =>
        /\ ~last.ok
        /\ last.err.cls = "ConfigurationError"
        /\ last.err.reason = "missing required section"
        /\ last.err.section = <<"m", "i", "r", "r", "o", "r">>
        /\ last.err.option = <<>>
        /\ last.err.attr = ""

C4_Witness ==
    /\ MirrorValidated
    /\ ~has_section(sections, s_mirror)
    /\ ~last.ok
    /\ last.err.reason = "missing required section"

\* C5: when the [mirror] section exists and 'directory' is absent or set to the
\* empty text, validation fails with a missing-option error naming the section
\* 'mirror' and the option 'directory'.
C5_MissingDirectoryFails ==
    (MirrorValidated /\ has_section(sections, s_mirror) /\ ~DirectoryGiven) =>
        /\ ~last.ok
        /\ last.err.cls = "MissingOptionError"
        /\ last.err.section = <<"m", "i", "r", "r", "o", "r">>
        /\ last.err.option = <<"d", "i", "r", "e", "c", "t", "o", "r", "y">>

C5_Witness ==
    /\ MirrorValidated
    /\ k_directory \in MirrorOptions
    /\ MirrorText(k_directory) = <<>>
    /\ ~last.ok
    /\ last.err.cls = "MissingOptionError"

\* the documented defaults of a configuration that sets only the directory dir
DocumentedDefaults(dir) ==
    [directory |-> PurePath(dir),
     storage_backend_name |-> <<"f", "i", "l", "e", "s", "y", "s", "t", "e", "m">>,
     master_url |-> <<"h", "t", "t", "p", "s", ":", "/", "/", "p", "y", "p", "i", ".", "o", "r",
             "g">>,
     proxy_url |-> None,
     download_mirror_url |-> None,
     download_mirror_no_fallback |-> FALSE,
     simple_format |-> <<"a", "l", "l">>,
     save_release_files |-> TRUE,
     save_json |-> FALSE,
     root_uri |-> <<>>,
     hash_index |-> FALSE,
     keep_index_versions |-> 0,
     diff_file |-> [root |-> PurePath(dir).root,
                    parts |-> Append(PurePath(dir).parts,
                                     <<"m", "i", "r", "r", "o", "r", "e", "d", "-", "f", "i",
                                             "l", "e", "s">>)],
     diff_append_epoch |-> FALSE,
     stop_on_error |-> FALSE,
     timeout |-> Float(10, 1),
     global_timeout |-> Float(1800, 1),
     workers |-> 3,
     verifiers |-> 3,
     compare_method |-> <<"h", "a", "s", "h">>,
     digest_name |-> <<"s", "h", "a", "2", "5", "6">>,
     log_config |-> None,
     cleanup |-> FALSE]

\* the keyword arguments of a direct construction with only the directory
DirectoryOnly(dir) == [key \in {k_directory} |-> dir]

\* C6: a [mirror] section holding only a non-empty 'directory' validates, every
\* other field has its documented default, and the instance equals the one
\* constructed directly with only that directory.
C6_DirectoryOnlyGivesDefaults ==
    (MirrorValidated /\ DirectoryGiven /\ MirrorOptions = {k_directory}) =>
        /\ last.ok
        /\ ValidatedFields = DocumentedDefaults(MirrorText(k_directory))
        /\ ValidatedFields = MirrorConfiguration(DirectoryOnly(MirrorText(k_directory))).v

C6_Witness ==
    /\ MirrorValidated
    /\ MirrorOptions = {k_directory}
    /\ MirrorText(k_directory) = <<"/", "t", "e", "s", "t">>
    /\ last.ok
    /\ ValidatedFields.workers = 3

\* the upper-case letters
UpperChars == <<"A", "B", "C", "D", "E", "F", "G", "H", "I", "J", "K", "L", "M",
                "N", "O", "P", "Q", "R", "S", "T", "U", "V", "W", "X", "Y", "Z">>

\* the option name holds no upper-case letter and no "-"
IsNormalized(key) ==
    \A i \in 1..Len(key) : key[i] # "-" /\ \A j \in 1..Len(UpperChars) : key[i] # UpperChars[j]

\* C7: after a file wrote keep_index_versions under any of its spellings, the
\* option is stored under the one normalised key, every stored name is
\* normalised, a lookup under each spelling finds the value written, and a
\* successful validation yields the same field value, 3.
C7_OptionNamesNormalized ==
    written \in KeepIndexVersionsSpellings =>
        /\ \A key \in MirrorOptions : IsNormalized(key)
        /\ MirrorOptions \cap KeepIndexVersionsSpellings = {k_keep_index_versions}
        /\ MirrorText(k_keep_index_versions) = <<"3">>
        /\ \A spelling \in KeepIndexVersionsSpellings :
               section_get(sections, s_mirror, spelling) = Some(<<"3">>)
        /\ (MirrorValidated /\ last.ok) => ValidatedFields.keep_index_versions = 3

C7_Witness ==
    /\ written = <<"K", "e", "e", "p", "-", "I", "n", "d", "e", "x", "-", "V", "e", "r", "s",
            "i", "o", "n", "s">>
    /\ MirrorValidated
    /\ last.ok
    /\ ValidatedFields.keep_index_versions = 3

\* the number an option text of workers and verifiers denotes
CountOf(text) ==
    CASE text = <<"-", "1">> -> -1
      [] text = <<"0">> -> 0
      [] text = <<"1">> -> 1
      [] text = <<"1", "0">> -> 10
      [] text = <<"1", "1">> -> 11

\* the field set by the option stored under key
FieldOf(key) == MirrorFields[CHOOSE i \in FieldIndex : MirrorFields[i].key = key].name

\* C8: with 'directory' given, for each of 'workers' and 'verifiers': a value
\* below 1 or above 10 makes validation fail with an invalid-value error for the
\* section 'mirror' (about that field when nothing else is set); a value in
\* 1..10, nothing else being set, validates and the field holds that number.
C8_WorkerCountRange ==
    \A key \in {k_workers, k_verifiers} :
        (MirrorValidated /\ DirectoryGiven /\ key \in MirrorOptions) =>
            /\ CountOf(MirrorText(key)) \notin 1..10 =>
                   /\ ~last.ok
                   /\ last.err.cls = "InvalidValueError"
                   /\ last.err.section = <<"m", "i", "r", "r", "o", "r">>
                   /\ MirrorOptions = {k_directory, key} => last.err.attr = FieldOf(key)
            /\ (CountOf(MirrorText(key)) \in 1..10 /\ MirrorOptions = {k_directory, key}) =>
                   /\ last.ok
                   /\ ValidatedFields[FieldOf(key)] = CountOf(MirrorText(key))

C8_Witness ==
    /\ MirrorValidated
    /\ MirrorOptions = {k_directory, k_workers}
    /\ DirectoryGiven
    /\ MirrorText(k_workers) = <<"1", "1">>
    /\ ~last.ok
    /\ last.err.attr = "workers"

\* the number an option text of timeout and global-timeout denotes
TimeoutOf(text) ==
    CASE text = <<"-", "1">> -> Float(-1, 1)
      [] text = <<"0">> -> Float(0, 1)
      [] text = <<"1", ".", "9">> -> Float(19, 10)
      [] text = <<"1", "0", "0", "0", ".", "0">> -> Float(1000, 1)

\* C9: with 'directory' given, for each of 'timeout' and 'global-timeout': a
\* value of 0 or less makes validation fail with an invalid-value error for the
\* section 'mirror' (about that field when nothing else is set); a positive
\* value, nothing else being set, validates and the field holds that value.
C9_TimeoutPositive ==
    \A key \in {k_timeout, k_global_timeout} :
        (MirrorValidated /\ DirectoryGiven /\ key \in MirrorOptions) =>
            /\ TimeoutOf(MirrorText(key)).n <= 0 =>
                   /\ ~last.ok
                   /\ last.err.cls = "InvalidValueError"
                   /\ last.err.section = <<"m", "i", "r", "r", "o", "r">>
                   /\ MirrorOptions = {k_directory, key} => last.err.attr = FieldOf(key)
            /\ (TimeoutOf(MirrorText(key)).n > 0 /\ MirrorOptions = {k_directory, key}) =>
                   /\ last.ok
                   /\ FloatEq(ValidatedFields[FieldOf(key)], TimeoutOf(MirrorText(key)))

C9_Witness ==
    /\ MirrorValidated
    /\ MirrorOptions = {k_directory, k_global_timeout}
    /\ DirectoryGiven
    /\ MirrorText(k_global_timeout) = <<"0">>
    /\ ~last.ok
    /\ last.err.attr = "global_timeout"

\* C10: when a validated [mirror] section does not set 'root-uri', root_uri is
\* 'https://files.pythonhosted.org' if 'release-files' is false, and the empty
\* text if 'release-files' is true or not set.
C10_DefaultRootUri ==
    (MirrorValidated /\ last.ok /\ k_root_uri \notin MirrorOptions) =>
        IF k_release_files \in MirrorOptions
           /\ MirrorText(k_release_files) = <<"f", "a", "l", "s", "e">>
        THEN ValidatedFields.root_uri =
                 <<"h", "t", "t", "p", "s", ":", "/", "/", "f", "i", "l", "e", "s", ".",
                   "p", "y", "t", "h", "o", "n", "h", "o", "s", "t", "e", "d", ".", "o", "r", "g">>
        ELSE ValidatedFields.root_uri = <<>>

C10_Witness ==
    /\ MirrorValidated
    /\ last.ok
    /\ k_root_uri \notin MirrorOptions
    /\ k_release_files \in MirrorOptions
    /\ MirrorText(k_release_files) = <<"f", "a", "l", "s", "e">>
    /\ ValidatedFields.save_release_files = FALSE
    /\ ValidatedFields.root_uri # <<>>

\* the option an input refers to exists in the source
RefTargetExists ==
    /\ has_section(sections, refcall.in.section)
    /\ refcall.in.option \in DOMAIN sections[refcall.in.section]

\* C14: for a value prefix {{ section_option }} suffix, with or without blanks
\* inside the braces, whose option exists in that section of the source,
\* eval_legacy_reference returns prefix + the option's value + suffix.
C14_ReferenceResolved ==
    (refcall.called /\ refcall.in.sep = "_" /\ RefTargetExists) =>
        /\ refcall.result.ok
        /\ refcall.result.v =
               Text(refcall.in.prefix \o sections[refcall.in.section][refcall.in.option]
                    \o refcall.in.suffix)

\* C15: for a value that parses as a reference (a section name of two or more
\* characters) whose section or option does not exist in the source,
\* eval_legacy_reference raises the lookup error when no fallback was given and
\* returns the fallback when one was given, whatever it is.
C15_MissingReferenceFailsOrFallsBack ==
    (refcall.called /\ refcall.in.sep = "_" /\ Len(refcall.in.section) >= 2
        /\ ~RefTargetExists) =>
        IF refcall.fallback = UNSET
        THEN ~refcall.result.ok /\ refcall.result.exc \in {"NoSectionError", "NoOptionError"}
        ELSE refcall.result.ok /\ refcall.result.v = refcall.fallback

\* C16: for a value without the section/option separator, eval_legacy_reference
\* raises ValueError 'Unable to parse config option reference' when no fallback
\* was given and returns the fallback when one was given; the outcome is the
\* same for every source.
C16_SyntaxErrorOrFallback ==
    (refcall.called /\ refcall.in.sep = ".") =>
        /\ IF refcall.fallback = UNSET
           THEN /\ ~refcall.result.ok
                /\ refcall.result.exc = "ValueError"
                /\ refcall.result.reason = "Unable to parse config option reference"
           ELSE refcall.result.ok /\ refcall.result.v = refcall.fallback
        /\ \A source \in RefSources :
               eval_legacy_reference(source, refcall.value, refcall.fallback) = refcall.result

C16_Witness ==
    /\ refcall.called
    /\ refcall.in.sep = "."
    /\ RefTargetExists
    /\ refcall.fallback = UNSET
    /\ ~refcall.result.ok

\* the validated directory joined with the component 'mirrored-files'
DirectoryMirroredFiles ==
    [root  |-> ValidatedFields.directory.root,
     parts |-> Append(ValidatedFields.directory.parts,
                      <<"m", "i", "r", "r", "o", "r", "e", "d", "-", "f", "i", "l", "e", "s">>)]

\* 'diff-file' is set to a text without a legacy reference
PlainDiffFile ==
    k_diff_file \in MirrorOptions /\ MirrorText(k_diff_file) \notin DiffFileReferences

ExpectedDefaultDiffFile(dir) ==
    CASE dir = <<"/">> ->
             [root |-> <<"/">>, parts |-> <<v_mirrored_files>>]
      [] dir = <<"/", "t", "e", "s", "t">> ->
             [root |-> <<"/">>, parts |-> <<<<"t", "e", "s", "t">>, v_mirrored_files>>]
      [] dir = <<"/", "o", "p", "t", "/", "m", "i", "r", "r", "o", "r">> ->
             [root |-> <<"/">>, parts |-> <<<<"o", "p", "t">>, <<"m", "i", "r", "r", "o", "r">>,
                     v_mirrored_files>>]

ReferenceParts(text) ==
    CASE text = ref_mirror_directory ->
             [prefix |-> <<>>, section |-> s_mirror, option |-> k_directory, suffix |-> <<>>]
      [] text = ref_test_example ->
             [prefix |-> <<>>, section |-> s_test, option |-> k_example, suffix |-> <<>>]
      [] text = ref_test_example_suffix ->
             [prefix |-> <<>>, section |-> s_test, option |-> k_example,
              suffix |-> <<"/", "b", "a", "n", "d", "e", "r", "s", "n", "a", "t", "c", "h">>]
      [] text = ref_prefix_test_example ->
             [prefix |-> <<"/", "s", "r", "v", "/">>, section |-> s_test, option |-> k_example,
                     suffix |-> <<>>]
      [] text = ref_mirror_woops ->
             [prefix |-> <<>>, section |-> s_mirror, option |-> k_woops, suffix |-> <<>>]
      [] text = ref_nosuch_option ->
             [prefix |-> <<>>, section |-> <<"n", "o", "s", "u", "c", "h">>, option |-> <<"o", "p", "t", "i", "o", "n">>,
                     suffix |-> <<>>]

\* 'diff-file' holds one of the references
DiffFileIsReference ==
    k_diff_file \in MirrorOptions /\ MirrorText(k_diff_file) \in DiffFileReferences

\* the option the reference in 'diff-file' names exists in the source
DiffTargetExists ==
    /\ has_section(sections, ReferenceParts(MirrorText(k_diff_file)).section)
    /\ ReferenceParts(MirrorText(k_diff_file)).option
           \in DOMAIN sections[ReferenceParts(MirrorText(k_diff_file)).section]

\* prefix + the referenced option's value + suffix
ResolvedText(parts) == parts.prefix \o sections[parts.section][parts.option] \o parts.suffix

\* C13: when diff-file is prefix {{ section_option }} suffix and the option
\* exists in the source, validation gives diff_file = prefix + the option's
\* value + suffix, for empty and non-empty prefix and suffix.
C13_DiffFileReferenceResolved ==
    (MirrorValidated /\ DiffFileIsReference /\ DiffTargetExists) =>
        /\ last.ok
        /\ ValidatedFields.diff_file =
               PurePath(ResolvedText(ReferenceParts(MirrorText(k_diff_file))))

\* C17: when diff-file holds a reference whose section or option does not
\* exist, validation does not abort and diff_file is the default, the
\* directory joined with 'mirrored-files'.
C17_UnresolvedReferenceGivesDefault ==
    (MirrorValidated /\ DiffFileIsReference /\ ~DiffTargetExists) =>
        /\ last.ok
        /\ ValidatedFields.diff_file = DirectoryMirroredFiles

C17_Witness ==
    /\ MirrorValidated
    /\ DiffFileIsReference
    /\ MirrorText(k_diff_file) = ref_nosuch_option
    /\ last.ok
    /\ ValidatedFields.diff_file = DirectoryMirroredFiles

\* C18 as stated: validation of a [mirror] section whose diff-file is
\* '{{ mirror_woops }}', woops not being an option of [mirror], fails with an
\* error that names the missing option.
C18_MissingReferenceFails ==
    (MirrorValidated /\ k_diff_file \in MirrorOptions
        /\ MirrorText(k_diff_file) = <<"{", "{", " ", "m", "i", "r", "r", "o", "r", "_", "w",
                "o", "o", "p", "s", " ", "}", "}">>
        /\ k_woops \notin MirrorOptions) =>
        /\ ~last.ok
        /\ last.err.option \in {k_woops, k_diff_file}

\* C18 amended: validation of a [mirror] section whose diff-file is
\* '{{ mirror_woops }}', woops not being an option of [mirror], does not fail:
\* no error is raised and diff_file is the directory joined with
\* 'mirrored-files'.
C18_MissingReferenceFallsBack ==
    (MirrorValidated /\ k_diff_file \in MirrorOptions
        /\ MirrorText(k_diff_file) = <<"{", "{", " ", "m", "i", "r", "r", "o", "r", "_", "w",
                "o", "o", "p", "s", " ", "}", "}">>
        /\ k_woops \notin MirrorOptions) =>
        /\ last.ok
        /\ last.err = NoError
        /\ ValidatedFields.diff_file.parts =
               Append(PurePath(MirrorText(k_directory)).parts, v_mirrored_files)

C18_Witness ==
    /\ MirrorValidated
    /\ k_diff_file \in MirrorOptions
    /\ MirrorText(k_diff_file) = <<"{", "{", " ", "m", "i", "r", "r", "o", "r", "_", "w", "o",
            "o", "p", "s", " ", "}", "}">>
    /\ k_woops \notin MirrorOptions
    /\ last.ok

\* C19: with 'directory' given, for each integer option: the texts '1', '01'
\* and '0_1' give the field the number 1 whenever validation succeeds, and it
\* succeeds when nothing else is set; the texts '1_', 'fooey' and 'no' make
\* validation fail with an invalid-value error for the section 'mirror', which,
\* when nothing else is set, is the failed conversion of that option to 'int'.
C19_IntegerConversion ==
    \A key \in {k_workers, k_verifiers, k_keep_index_versions} :
        (MirrorValidated /\ DirectoryGiven /\ key \in MirrorOptions) =>
            /\ MirrorText(key) \in OneTexts =>
                   /\ MirrorOptions = {k_directory, key} => last.ok
                   /\ last.ok => ValidatedFields[FieldOf(key)] = 1
            /\ MirrorText(key) \in NotIntegerTexts =>
                   /\ ~last.ok
                   /\ last.err.cls = "InvalidValueError"
                   /\ last.err.section = <<"m", "i", "r", "r", "o", "r">>
                   /\ MirrorOptions = {k_directory, key} =>
                          /\ last.err.reason = "convert"
                          /\ last.err.type = "int"
                          /\ last.err.option = key
                          /\ last.err.attr = FieldOf(key)

C19_Witness ==
    /\ MirrorValidated
    /\ MirrorOptions = {k_directory, k_workers}
    /\ MirrorText(k_workers) = <<"1", "_">>
    /\ ~last.ok
    /\ last.err.reason = "convert"
    /\ last.err.type = "int"
    /\ last.err.attr = "workers"

\* the boolean options of [mirror], as the parser stores their names
BooleanKeys ==
    {k_diff_append_epoch, k_download_mirror_no_fallback, k_release_files, k_json,
     k_hash_index, k_stop_on_error, k_cleanup}

\* C20: with 'directory' given, for each boolean option: a text among on, yes,
\* true (no, off, false) in lower case, upper case or capitalized gives the
\* field the value true (false) whenever validation succeeds, and it succeeds
\* when nothing else is set; any other text, such as 'nope', makes validation
\* fail with an invalid-value error, which, when nothing else is set, is the
\* failed conversion of that option to 'bool'.
C20_BooleanConversion ==
    \A key \in BooleanKeys :
        (MirrorValidated /\ DirectoryGiven /\ key \in MirrorOptions) =>
            /\ MirrorText(key) \in TrueTexts \cup FalseTexts =>
                   /\ MirrorOptions = {k_directory, key} => last.ok
                   /\ last.ok => ValidatedFields[FieldOf(key)] = (MirrorText(key) \in TrueTexts)
            /\ MirrorText(key) \notin TrueTexts \cup FalseTexts =>
                   /\ ~last.ok
                   /\ last.err.cls = "InvalidValueError"
                   /\ MirrorOptions = {k_directory, key} =>
                          /\ last.err.reason = "convert"
                          /\ last.err.type = "bool"
                          /\ last.err.attr = FieldOf(key)

C20_Witness ==
    /\ MirrorValidated
    /\ MirrorOptions = {k_directory, k_diff_append_epoch}
    /\ MirrorText(k_diff_append_epoch) = <<"O", "F", "F">>
    /\ last.ok
    /\ ValidatedFields["diff_append_epoch"] = FALSE

\* the fields whose option is stored under an alias, not under the attribute name
AliasedFields ==
    {"storage_backend_name", "master_url", "proxy_url", "download_mirror_url",
     "save_release_files", "save_json"}

\* the message of the error names the option stored under key: as the option of
\* the error, or as an attribute whose name is the option's
ErrorNamesOption(key) ==
    \/ last.err.option = key
    \/ last.err.attr = FieldOf(key) /\ FieldOf(key) \notin AliasedFields

\* C21: when validating the mirror model fails because of one option (the only
\* option of [mirror] besides a valid 'directory', or 'directory' itself), the
\* error carries the section name 'mirror' and names that option.
C21_ErrorNamesSectionAndOption ==
    \A key \in {MirrorFields[i].key : i \in FieldIndex} :
        (/\ MirrorValidated
         /\ ~last.ok
         /\ key \in MirrorOptions
         /\ MirrorOptions \subseteq {k_directory, key}
         /\ key = k_directory \/ DirectoryGiven) =>
            /\ last.err.section = <<"m", "i", "r", "r", "o", "r">>
            /\ ErrorNamesOption(key)

\* [mirror] holds a valid 'directory' and the option stored under key, which is empty
OnlyEmptyOption(key) ==
    /\ MirrorValidated
    /\ DirectoryGiven
    /\ key # k_directory
    /\ MirrorOptions = {k_directory, key}
    /\ MirrorText(key) = <<>>

\* C23 as stated: an option of [mirror] present with an empty value counts as
\* absent, for every field that has a default: validation succeeds and the
\* instance is the one of a section with the directory only.
C23_EmptyValueIsAbsent ==
    \A key \in {MirrorFields[i].key : i \in FieldIndex} :
        OnlyEmptyOption(key) =>
            /\ last.ok
            /\ ValidatedFields = DocumentedDefaults(MirrorText(k_directory))

\* the empty path, PurePath("")
EmptyPath == [root |-> <<>>, parts |-> <<>>]

\* C23 amended: an empty value is handed to the field's converter and validators
\* like any other text. Validation fails for every option but root-uri,
\* diff-file and log-config; with root-uri empty the instance is the one of the
\* directory alone; with diff-file (log-config) empty the field is the empty
\* path, not its default, and every other field has its default.
C23_EmptyValueIsConverted ==
    \A key \in {MirrorFields[i].key : i \in FieldIndex} :
        OnlyEmptyOption(key) =>
            /\ FieldOf(key) \notin {"root_uri", "diff_file", "log_config"} => ~last.ok
            /\ FieldOf(key) = "root_uri" =>
                   /\ last.ok
                   /\ ValidatedFields = DocumentedDefaults(MirrorText(k_directory))
            /\ FieldOf(key) = "diff_file" =>
                   /\ last.ok
                   /\ ValidatedFields = [DocumentedDefaults(MirrorText(k_directory))
                                            EXCEPT !.diff_file = EmptyPath]
            /\ FieldOf(key) = "log_config" =>
                   /\ last.ok
                   /\ ValidatedFields = [DocumentedDefaults(MirrorText(k_directory))
                                            EXCEPT !.log_config = Some(EmptyPath)]

C23_Witness ==
    /\ OnlyEmptyOption(k_workers)
    /\ ~last.ok
    /\ last.err.cls = "InvalidValueError"
    /\ last.err.reason = "convert"
    /\ last.err.option = k_workers

\* the fields with a converter, by kind
BooleanNames ==
    {"download_mirror_no_fallback", "save_release_files", "save_json", "hash_index",
     "diff_append_epoch", "stop_on_error", "cleanup"}
NumberNames == {"keep_index_versions", "workers", "verifiers", "timeout", "global_timeout"}
EnumNames == {"simple_format", "compare_method", "digest_name"}

\* the fields of [mirror] whose text does not convert to the field's type
InvalidConversion ==
    {i \in FieldIndex :
        /\ MirrorFields[i].key \in MirrorOptions \ {k_directory}
        /\ \/ MirrorText(MirrorFields[i].key) \in {v_foo, v_nope, v_bogus}
           \/ /\ MirrorText(MirrorFields[i].key) = <<>>
              /\ MirrorFields[i].name \in BooleanNames \cup NumberNames \cup EnumNames}

\* the fields of [mirror] whose text converts to a value that violates a constraint
InvalidConstraint ==
    {i \in FieldIndex :
        /\ MirrorFields[i].key \in MirrorOptions
        /\ \/ <<MirrorFields[i].name, MirrorText(MirrorFields[i].key)>> \in
                  {<<"workers", <<"1", "1">> >>, <<"timeout", <<"0">> >>,
                   <<"keep_index_versions", <<"-", "1">> >>}
           \/ /\ MirrorText(MirrorFields[i].key) = <<>>
              /\ MirrorFields[i].name \in {"storage_backend_name", "master_url", "proxy_url",
                                           "download_mirror_url"}}

\* the reported error is the one of field i (an enumeration's conversion error
\* names no field)
ErrorIsFor(i) ==
    IF MirrorFields[i].name \in EnumNames
    THEN last.err.reason = "convert" /\ last.err.option = <<>>
    ELSE last.err.attr = MirrorFields[i].name

\* C26 as stated: with 'directory' given and one or more invalid options in
\* [mirror], validation fails and the reported error is the one of the
\* earliest-declared invalid field.
C26_EarliestInvalidFieldReported ==
    (MirrorValidated /\ DirectoryGiven /\ InvalidConversion \cup InvalidConstraint # {}) =>
        /\ ~last.ok
        /\ ErrorIsFor(Least(InvalidConversion \cup InvalidConstraint))

\* C26 amended: every conversion runs, in declaration order, before any
\* constraint is checked. With 'directory' given and invalid options in [mirror],
\* validation fails; the reported error is the conversion failure of the
\* earliest-declared field whose text does not convert when there is one, and
\* otherwise the constraint violation of the earliest-declared field that
\* violates one.
C26_ConversionsBeforeConstraints ==
    (MirrorValidated /\ DirectoryGiven /\ InvalidConversion \cup InvalidConstraint # {}) =>
        /\ ~last.ok
        /\ InvalidConversion # {} =>
               last.err.reason = "convert" /\ ErrorIsFor(Least(InvalidConversion))
        /\ InvalidConversion = {} =>
               last.err.reason # "convert" /\ ErrorIsFor(Least(InvalidConstraint))

C26_Witness ==
    /\ MirrorValidated
    /\ DirectoryGiven
    /\ MirrorOptions = {k_directory, k_timeout, k_workers}
    /\ MirrorText(k_timeout) = <<"0">>
    /\ MirrorText(k_workers) = v_foo
    /\ ~last.ok
    /\ last.err.reason = "convert"
    /\ last.err.attr = "workers"

\* the constraints on the fields of a mirror configuration
SatisfiesConstraints(f) ==
    /\ f.workers \in 1..10
    /\ f.verifiers \in 1..10
    /\ f.timeout.n > 0 /\ f.timeout.d > 0
    /\ f.global_timeout.n > 0 /\ f.global_timeout.d > 0
    /\ f.keep_index_versions >= 0
    /\ f.storage_backend_name # <<>>
    /\ f.master_url # <<>>
    /\ f.proxy_url = None \/ f.proxy_url[1] # <<>>
    /\ f.download_mirror_url = None \/ f.download_mirror_url[1] # <<>>
    /\ ~f.save_release_files => f.root_uri # <<>>

\* C28: every mirror configuration instance that exists, and so every one that
\* is stored in the cache or returned to a caller, satisfies all field
\* constraints, the one on root_uri that post-construction defaulting
\* establishes included; the cache and the callers hold existing instances only.
C28_ExposedInstancesValid ==
    /\ \A obj \in DOMAIN heap :
           heap[obj].cls = Mirror => SatisfiesConstraints(heap[obj].fields)
    /\ \A name \in DOMAIN validated_objects : validated_objects[name] \in DOMAIN heap
    /\ \A m \in ModelTypes : returned[m] \subseteq DOMAIN heap
    /\ (last.called /\ last.ok) => last.obj \in DOMAIN heap

C28_Witness ==
    /\ MirrorValidated
    /\ last.ok
    /\ k_release_files \in MirrorOptions
    /\ MirrorText(k_release_files) = <<"f", "a", "l", "s", "e">>
    /\ k_root_uri \notin MirrorOptions
    /\ ValidatedFields.root_uri # <<>>
    /\ validated_objects["MirrorConfiguration"] = last.obj

\* C22: a get_validated(M) call whose validation fails raises the error and
\* leaves the cache, the instances and the source as they were, with no entry
\* under M's name; a call that finds no entry under its model's name runs the
\* validation, which succeeds for a model without required options.
C22_FailedValidationLeavesNoTrace ==
    [][last'.called =>
          /\ ~last'.ok =>
                 /\ last'.validated
                 /\ last'.err.cls # ""
                 /\ validated_objects' = validated_objects
                 /\ heap' = heap
                 /\ returned' = returned
                 /\ sections' = sections
                 /\ TypeName(last'.model) \notin DOMAIN validated_objects'
          /\ TypeName(last'.model) \notin DOMAIN validated_objects =>
                 /\ last'.validated
                 /\ last'.model = "plugin.FilterConfiguration" => last'.ok
          /\ (last'.model = Mirror /\ "FilterConfiguration" \in DOMAIN validated_objects) =>
                 validated_objects'["FilterConfiguration"] =
                     validated_objects["FilterConfiguration"]]_vars

\* the mirror model has just failed to validate while the instance of another
\* model stays cached
C22_Witness ==
    /\ MirrorValidated
    /\ ~last.ok
    /\ DOMAIN validated_objects = {"FilterConfiguration"}
    /\ returned["plugin.FilterConfiguration"] = {validated_objects["FilterConfiguration"]}

\* C27: there is no eviction or invalidation: once a get_validated(M) call has
\* returned, the entry under M's name stays in the cache with the same instance
\* and the same field values, so that every later call returns that instance.
C27_NoEviction ==
    [][\A m \in ModelTypes :
          (returned[m] # {} /\ TypeName(m) \in DOMAIN validated_objects) =>
              /\ TypeName(m) \in DOMAIN validated_objects'
              /\ validated_objects'[TypeName(m)] = validated_objects[TypeName(m)]
              /\ heap'[validated_objects[TypeName(m)]] = heap[validated_objects[TypeName(m)]]]_vars

\* C29: whenever the pattern of eval_legacy_reference parses a value,
\* has_legacy_reference of that value is true
C29_PreCheckSound ==
    (refcall.has # None /\ _LEGACY_REF_PARTS_RE(RefValue(refcall.in)) # None) =>
        refcall.has = Some(TRUE)

\* the patterns of the plugins' tests, and one without "$"
p_rc == <<".", "+", "r", "c", "\\", "d", "$">>
p_alpha == <<".", "+", "a", "l", "p", "h", "a", "\\", "d", "$">>
p_evil == <<".", "+", "-", "e", "v", "i", "l", "$">>
p_neutral == <<".", "+", "-", "n", "e", "u", "t", "r", "a", "l", "$">>
p_12 == <<"1", ".", "2">>

\* the pattern stands on a line of its own in the value
IsLineOf(pattern, value) ==
    \E i \in 1..Len(value) :
        /\ i + Len(pattern) - 1 <= Len(value)
        /\ SubSeq(value, i, i + Len(pattern) - 1) = pattern
        /\ i = 1 \/ value[i - 1] = "\n"
        /\ i + Len(pattern) - 1 = Len(value) \/ value[i + Len(pattern)] = "\n"

\* the patterns configured for a plugin in the [filter_regex] section
Configured(plugin) ==
    IF filter_regex.section \notin DOMAIN sections THEN {}
    ELSE IF filter_regex[plugin] \notin DOMAIN sections[filter_regex.section] THEN {}
    ELSE {pattern \in {p_rc, p_alpha, p_evil, p_neutral, p_12} :
             IsLineOf(pattern, sections[filter_regex.section][filter_regex[plugin]])}

\* the pairs of a pattern and a text of the model that Python's re.match matches
Matches ==
    {<<p_rc, <<"f", "o", "o", "-", "1", ".", "2", ".", "0", "r", "c", "2">>>>,
     <<p_alpha, <<"f", "o", "o", "-", "1", ".", "2", ".", "0", "a", "l", "p", "h", "a", "2">>>>,
     <<p_evil, <<"f", "o", "o", "-", "e", "v", "i", "l">>>>,
     <<p_neutral, <<"f", "o", "o", "-", "n", "e", "u", "t", "r", "a", "l">>>>,
     <<p_12, <<"1", ".", "2", ".", "0">>>>}

\* C24: the release filter returns False exactly when the version matches one
\* of the configured patterns, so it returns True when none is configured
C24_ReleaseFilterRejectsMatches ==
    (filtered.called /\ filtered.plugin = "regex_release") =>
        /\ filtered.ok
        /\ filtered.v = FALSE <=>
               \E pattern \in Configured("regex_release") :
                   <<pattern, filtered.metadata.version>> \in Matches

\* the two patterns of the tests are configured and the version that only the
\* second one matches has been rejected
C24_Witness ==
    /\ filtered.called
    /\ filtered.plugin = "regex_release"
    /\ Configured("regex_release") = {p_rc, p_alpha}
    /\ filtered.metadata.version = <<"f", "o", "o", "-", "1", ".", "2", ".", "0", "a", "l", "p", "h", "a", "2">>
    /\ filtered.v = FALSE

\* C25: check_match(name=...) is True exactly when the name matches one of the
\* configured patterns, filter returns the opposite, and check_match without
\* 'name' raises
C25_ProjectFilterNegatesCheckMatch ==
    (filtered.called /\ filtered.plugin = "regex_project") =>
        IF filtered.method = "filter"
        THEN /\ filtered.ok
             /\ filtered.v = ~\E pattern \in Configured("regex_project") :
                                 <<pattern, filtered.metadata.info.name>> \in Matches
        ELSE IF "name" \in DOMAIN filtered.kwargs
        THEN /\ filtered.ok
             /\ filtered.v = \E pattern \in Configured("regex_project") :
                                <<pattern, filtered.kwargs.name>> \in Matches
        ELSE ~filtered.ok

\* check_match has been called without 'name' on a plugin with patterns
C25_Witness ==
    /\ filtered.called
    /\ filtered.plugin = "regex_project"
    /\ filtered.method = "check_match"
    /\ "name" \notin DOMAIN filtered.kwargs
    /\ Configured("regex_project") = {p_evil, p_neutral}
    /\ ~filtered.ok

\* C30: a call BandersnatchConfig(...) made when an earlier call has returned
\* gives the manager of the first call, and changes neither a manager's parser
\* or cache nor the contents of a parser, whatever parser it was given
C30_OneManagerPerProcess ==
    [][(constructed # <<>> /\ constructed' # constructed) =>
          /\ constructed'[Len(constructed')].instance = constructed[1].instance
          /\ managers' = managers
          /\ parsers' = parsers]_vars

\* the manager has been created with a parser of its own, a file loaded and a
\* model validated, and then a call handing in another parser has returned
C30_Witness ==
    /\ Len(constructed) >= 2
    /\ constructed[1].config_parser = None
    /\ constructed[2].config_parser # None
    /\ constructed[2].instance = constructed[1].instance
    /\ managers[1]._typed_configs # <<>>
    /\ constructed[2].config_parser[1] # managers[1].config_parser

====
